---- MODULE Spec2Model ----
(***************************************************************************)
(* yangfmt: lexer, statement parser, tree builder, formatting transform    *)
(* and printer, modelled from the Rust sources.                            *)
(*                                                                         *)
(* Text is a sequence of bytes (integers).  Offsets are 0-based as in the  *)
(* source; Option<T> is a sequence of length 0 (None) or 1 (Some).         *)
(***************************************************************************)
EXTENDS Integers, Sequences, FiniteSets, TLC

(***************************************************************************)
(* Byte constants of src/src/lexing.rs                                     *)
(***************************************************************************)
TAB == 9
NEWLINE == 10
CARRIAGE_RETURN == 10
SPACE == 32
DOUBLE_QUOTE == 34
SINGLE_QUOTE == 39
ASTERISK == 42
PLUS == 43
DASH == 45
SLASH == 47
SEMICOLON == 59
BACKSLASH == 92
LEFT_CURLY_BRACKET == 123
RIGHT_CURLY_BRACKET == 125
\* b'\n' and b'\r' literals of scan_line_break
LF == 10
CR == 13
\* the characters of NUMBER_PATTERN and DATE_PATTERN: ".", "0", "1", "9"
DOT == 46
DIGIT_0 == 48
DIGIT_1 == 49
DIGIT_9 == 57
\* the letters "a", "b", "c" that input texts are written with
Letters == <<97, 98, 99>>
LETTER_a == Letters[1]
LETTER_b == Letters[2]
LETTER_c == Letters[3]

(***************************************************************************)
(* Bounds                                                                  *)
(***************************************************************************)
MaxLen == 4
MaxItems == 4

(***************************************************************************)
(* Option and Result                                                       *)
(***************************************************************************)
None == <<>>
Some(x) == <<x>>
IsSome(o) == o # <<>>
Unwrap(o) == o[1]

\* buffer.get(i): 0-based, None past the end
Get(buffer, i) == IF i >= 0 /\ i < Len(buffer) THEN Some(buffer[i + 1]) ELSE None
\* buffer.get(i).map_or(false, |c| *c == b)
GetIs(buffer, i, b) == i >= 0 /\ i < Len(buffer) /\ buffer[i + 1] = b
\* buffer[a..a+n] as an owned copy
Slice(buffer, a, n) == SubSeq(buffer, a + 1, a + n)

(***************************************************************************)
(* Lexer (src/src/lexing.rs)                                               *)
(***************************************************************************)

\* TextPosition::from_buffer_index: 1-based line and column of a byte offset
RECURSIVE from_buffer_index_loop(_, _, _, _, _)
from_buffer_index_loop(buffer, index, i, line, col) ==
    IF i >= Len(buffer) \/ i = index THEN [line |-> line, col |-> col]
    ELSE IF buffer[i + 1] = NEWLINE
         THEN from_buffer_index_loop(buffer, index, i + 1, line + 1, 1)
         ELSE from_buffer_index_loop(buffer, index, i + 1, line, col + 1)

from_buffer_index(buffer, index) == from_buffer_index_loop(buffer, index, 0, 1, 1)

\* scan_line_break: Some(1) at "\n"; the "\r\n" arm tests the same position twice
scan_line_break(buffer, cursor) ==
    IF GetIs(buffer, cursor, LF) THEN Some(1)
    ELSE IF GetIs(buffer, cursor, CR) /\ GetIs(buffer, cursor, LF) THEN Some(2)
    ELSE None

\* scan_whitespace: length of the run of spaces and tabs at cursor
RECURSIVE scan_whitespace_loop(_, _, _)
scan_whitespace_loop(buffer, cursor, i) ==
    IF GetIs(buffer, i, SPACE) \/ GetIs(buffer, i, TAB)
    THEN scan_whitespace_loop(buffer, cursor, i + 1)
    ELSE IF i - cursor > 0 THEN Some(i - cursor) ELSE None

scan_whitespace(buffer, cursor) == scan_whitespace_loop(buffer, cursor, cursor)

\* the loop of scan_string closing at either quote character
RECURSIVE scan_string_loop_any_quote(_, _, _, _, _)
scan_string_loop_any_quote(buffer, cursor, quote_char, prev_char, i) ==
    IF i < Len(buffer)
    THEN LET char == buffer[i + 1]
             prev_char_is_backslash == IsSome(prev_char) /\ Unwrap(prev_char) = BACKSLASH
         IN IF char \in {DOUBLE_QUOTE, SINGLE_QUOTE} /\ ~prev_char_is_backslash
            THEN [ok |-> TRUE, v |-> Some(i + 1 - cursor)]
            ELSE scan_string_loop_any_quote(buffer, cursor, quote_char, Some(char), i + 1)
    ELSE [ok |-> FALSE,
          e |-> [kind |-> "UnterminatedString",
                 at |-> from_buffer_index(buffer, cursor)]]

\* the loop of scan_string without the backslash test: the first matching quote closes
RECURSIVE scan_string_loop_no_escape(_, _, _, _, _)
scan_string_loop_no_escape(buffer, cursor, quote_char, prev_char, i) ==
    IF i < Len(buffer)
    THEN IF buffer[i + 1] = quote_char
         THEN [ok |-> TRUE, v |-> Some(i + 1 - cursor)]
         ELSE scan_string_loop_no_escape(buffer, cursor, quote_char, Some(buffer[i + 1]), i + 1)
    ELSE [ok |-> FALSE,
          e |-> [kind |-> "UnterminatedString",
                 at |-> from_buffer_index(buffer, cursor)]]

\* scan_string: Ok(Some(len)), Ok(None) when no quote at cursor, Err when unterminated
RECURSIVE scan_string_loop(_, _, _, _, _)
scan_string_loop(buffer, cursor, quote_char, prev_char, i) ==
    IF i < Len(buffer)
    THEN LET char == buffer[i + 1]
             prev_char_is_backslash == IsSome(prev_char) /\ Unwrap(prev_char) = BACKSLASH
         IN IF char = quote_char /\ ~prev_char_is_backslash
            THEN [ok |-> TRUE, v |-> Some(i + 1 - cursor)]
            ELSE scan_string_loop(buffer, cursor, quote_char, Some(char), i + 1)
    ELSE [ok |-> FALSE,
          e |-> [kind |-> "UnterminatedString",
                 at |-> from_buffer_index(buffer, cursor)]]

scan_string(buffer, cursor) ==
    IF buffer[cursor + 1] \in {DOUBLE_QUOTE, SINGLE_QUOTE}
    THEN scan_string_loop(buffer, cursor, buffer[cursor + 1], None, cursor + 1)
    ELSE [ok |-> TRUE, v |-> None]

\* scan_comment: "//" up to the next line break or the end of the buffer
RECURSIVE scan_comment_loop(_, _, _)
scan_comment_loop(buffer, i, length) ==
    IF IsSome(scan_line_break(buffer, i)) \/ i = Len(buffer) THEN length
    ELSE scan_comment_loop(buffer, i + 1, length + 1)

scan_comment(buffer, cursor) ==
    IF ~(GetIs(buffer, cursor, SLASH) /\ GetIs(buffer, cursor + 1, SLASH)) THEN None
    ELSE Some(scan_comment_loop(buffer, cursor + 2, 2))

\* scan_block_comment: "/*" up to and including the first "*/"
RECURSIVE scan_block_comment_loop(_, _, _, _)
scan_block_comment_loop(buffer, cursor, i, length) ==
    IF i = Len(buffer)
    THEN [ok |-> FALSE,
          e |-> [kind |-> "UnterminatedComment",
                 at |-> from_buffer_index(buffer, cursor)]]
    ELSE IF GetIs(buffer, i, ASTERISK) /\ GetIs(buffer, i + 1, SLASH)
         THEN [ok |-> TRUE, v |-> Some(length)]
         ELSE scan_block_comment_loop(buffer, cursor, i + 1, length + 1)

scan_block_comment(buffer, cursor) ==
    IF ~(GetIs(buffer, cursor, SLASH) /\ GetIs(buffer, cursor + 1, ASTERISK))
    THEN [ok |-> TRUE, v |-> None]
    ELSE scan_block_comment_loop(buffer, cursor, cursor + 2, 4)

\* is_delimiter
is_delimiter(c) ==
    c \in {SPACE, TAB, CARRIAGE_RETURN, NEWLINE, SEMICOLON,
           LEFT_CURLY_BRACKET, RIGHT_CURLY_BRACKET}

\* scan_other: the run of non-delimiter bytes at cursor
RECURSIVE scan_other_loop(_, _)
scan_other_loop(buffer, i) ==
    IF i < Len(buffer) /\ ~is_delimiter(buffer[i + 1]) THEN scan_other_loop(buffer, i + 1)
    ELSE i

scan_other(buffer, cursor) ==
    LET i == scan_other_loop(buffer, cursor)
    IN IF i > cursor THEN Some(i - cursor) ELSE None

IsDigit(c) == c >= DIGIT_0 /\ c <= DIGIT_9
AllDigits(s) == \A k \in 1..Len(s) : IsDigit(s[k])

\* NUMBER_PATTERN  ^\-?(0|([1-9]\d*(\.\d+)?))$
NUMBER_PATTERN(str) ==
    LET s == IF Len(str) > 0 /\ str[1] = DASH THEN Tail(str) ELSE str
    IN \/ s = <<DIGIT_0>>
       \/ /\ Len(s) > 0
          /\ s[1] >= DIGIT_1 /\ s[1] <= DIGIT_9
          /\ \/ AllDigits(s)
             \/ \E d \in 2..Len(s) - 1 :
                  /\ s[d] = DOT
                  /\ AllDigits(SubSeq(s, 1, d - 1))
                  /\ AllDigits(SubSeq(s, d + 1, Len(s)))

\* DATE_PATTERN  ^\d{4}\-\d{2}\-\d{2}$
DATE_PATTERN(str) ==
    /\ Len(str) = 10
    /\ \A k \in {1, 2, 3, 4, 6, 7, 9, 10} : IsDigit(str[k])
    /\ str[5] = DASH /\ str[8] = DASH

\* read_token! with the span's end taken exclusive: (cursor, cursor + length)
read_token_exclusive_end(buffer, cursor, token_type, length) ==
    [ok |-> TRUE,
     v |-> Some(<<cursor + length,
                  [token_type |-> token_type,
                   span |-> <<cursor, cursor + length>>,
                   text |-> Slice(buffer, cursor, length)]>>)]

\* read_token!
read_token(buffer, cursor, token_type, length) ==
    [ok |-> TRUE,
     v |-> Some(<<cursor + length,
                  [token_type |-> token_type,
                   span |-> <<cursor, cursor + length - 1>>,
                   text |-> Slice(buffer, cursor, length)]>>)]

\* next_token: Ok(None) at the end of the buffer, Ok(Some(<<next_cursor, token>>)),
\* or Err for an unterminated string or block comment
next_token(buffer, cursor) ==
    IF cursor >= Len(buffer) THEN [ok |-> TRUE, v |-> None]
    ELSE LET char == buffer[cursor + 1] IN
      IF char = SEMICOLON THEN read_token(buffer, cursor, "SemiColon", 1)
      ELSE IF char = PLUS THEN read_token(buffer, cursor, "Plus", 1)
      ELSE IF char = LEFT_CURLY_BRACKET THEN read_token(buffer, cursor, "OpenCurlyBrace", 1)
      ELSE IF char = RIGHT_CURLY_BRACKET
           THEN read_token(buffer, cursor, "ClosingCurlyBrace", 1)
      ELSE IF IsSome(scan_whitespace(buffer, cursor))
           THEN read_token(buffer, cursor, "WhiteSpace", Unwrap(scan_whitespace(buffer, cursor)))
      ELSE IF IsSome(scan_line_break(buffer, cursor))
           THEN read_token(buffer, cursor, "LineBreak", Unwrap(scan_line_break(buffer, cursor)))
      ELSE LET str == scan_string(buffer, cursor) IN
      IF ~str.ok THEN str
      ELSE IF IsSome(str.v) THEN read_token(buffer, cursor, "String", Unwrap(str.v))
      ELSE IF IsSome(scan_comment(buffer, cursor))
           THEN read_token(buffer, cursor, "Comment", Unwrap(scan_comment(buffer, cursor)))
      ELSE LET blk == scan_block_comment(buffer, cursor) IN
      IF ~blk.ok THEN blk
      ELSE IF IsSome(blk.v) THEN read_token(buffer, cursor, "Comment", Unwrap(blk.v))
      ELSE LET oth == scan_other(buffer, cursor) IN
      IF IsSome(oth)
      THEN LET text == Slice(buffer, cursor, Unwrap(oth)) IN
           IF NUMBER_PATTERN(text) THEN read_token(buffer, cursor, "Number", Unwrap(oth))
           ELSE IF DATE_PATTERN(text) THEN read_token(buffer, cursor, "Date", Unwrap(oth))
           ELSE read_token(buffer, cursor, "Other", Unwrap(oth))
      ELSE [ok |-> FALSE,
            e |-> [kind |-> "UnexpectedCharacter", position |-> cursor]]

(***************************************************************************)
(* Token stream (crates/yangfmt_parsing): Peekable over the lexer.  The    *)
(* stream is the offset of the next unread token; peek() and next() scan   *)
(* the token at that offset.                                               *)
(***************************************************************************)

\* yangfmt_lexing::scan_iter: the item the stream yields at offset cursor.  A token
\* is the token of next_token; an error is a LexerError with the message and the
\* offset at which the failed construct starts.
scan_iter_item(buffer, cursor, r) ==
    IF r.ok THEN r
    ELSE [ok |-> FALSE, e |-> [message |-> r.e.kind, position |-> cursor]]

scan_iter_next(buffer, cursor) == scan_iter_item(buffer, cursor, next_token(buffer, cursor))

\* the conversion with the offset of the lexer error dropped
ParseErrorFromLexer_no_offset(e) == [message |-> e.message, position |-> 0]

\* ParseError::from(LexerError): the lexer error's message and position
ParseErrorFromLexer(e) == [message |-> e.message, position |-> e.position]

\* STATEMENT_KEYWORDS (crate::constants): the fixed set of statement keywords, here
\* module, yang-version, namespace, description and revision
STATEMENT_KEYWORDS ==
    { <<109, 111, 100, 117, 108, 101>>,
      <<121, 97, 110, 103, 45, 118, 101, 114, 115, 105, 111, 110>>,
      <<110, 97, 109, 101, 115, 112, 97, 99, 101>>,
      <<100, 101, 115, 99, 114, 105, 112, 116, 105, 111, 110>>,
      <<114, 101, 118, 105, 115, 105, 111, 110>> }

\* the character classes [a-zA-Z_] and [a-zA-Z0-9\-_.] of the identifier patterns
COLON == 58
UNDERSCORE == 95
IsIdentStart(c) == c \in 65..90 \/ c \in 97..122 \/ c = UNDERSCORE
IsIdentChar(c) == IsIdentStart(c) \/ IsDigit(c) \/ c = DASH \/ c = DOT

\* the index after the run [a-zA-Z0-9\-_.]* of str that starts at index k
RECURSIVE ident_run(_, _)
ident_run(str, k) ==
    IF k <= Len(str) /\ IsIdentChar(str[k]) THEN ident_run(str, k + 1) ELSE k

\* EXT_KEYWORD_PATTERN  ^[a-zA-Z_][a-zA-Z0-9\-_.]*:[a-zA-Z_][a-zA-Z0-9\-_.]*$
ext_keyword_match(str, c) ==
    /\ c + 1 <= Len(str)
    /\ str[c] = COLON
    /\ IsIdentStart(str[c + 1])
    /\ ident_run(str, c + 2) = Len(str) + 1

EXT_KEYWORD_PATTERN(str) ==
    /\ Len(str) > 0
    /\ IsIdentStart(str[1])
    /\ ext_keyword_match(str, ident_run(str, 2))

\* the conversion with every text outside the keyword set taken as an extension keyword
StatementKeywordFrom_no_pattern(value) ==
    IF value \in STATEMENT_KEYWORDS THEN [tag |-> "Keyword", text |-> value]
    ELSE [tag |-> "ExtensionKeyword", text |-> value]

\* StatementKeyword::from(value)
StatementKeywordFrom(value) ==
    IF value \in STATEMENT_KEYWORDS THEN [tag |-> "Keyword", text |-> value]
    ELSE IF EXT_KEYWORD_PATTERN(value) THEN [tag |-> "ExtensionKeyword", text |-> value]
    ELSE [tag |-> "Invalid", text |-> value]

\* StatementKeyword::text
KeywordText(keyword) == keyword.text

\* the conversion without the arms of Number and Date
NodeValueFrom_string_or_other(token) ==
    [kind |-> IF token.token_type = "String" THEN "String" ELSE "Other",
     text |-> token.text,
     parts |-> <<>>]

\* NodeValue::from(&Token)
NodeValueFrom(token) ==
    [kind |-> IF token.token_type \in {"String", "Number", "Date"}
              THEN token.token_type ELSE "Other",
     text |-> token.text,
     parts |-> <<>>]

\* NodeValue::StringConcatenation(concat): parts are <<string, comments>> pairs
StringConcatenation(concat) ==
    [kind |-> "StringConcatenation", text |-> <<>>, parts |-> concat]

\* ParseState constructors
ParseStateNew ==
    [st |-> "Clean", keyword |-> <<>>, keyword_comments |-> <<>>, value |-> None,
     value_comments |-> <<>>, concat |-> <<>>, plus_state |-> "AfterPlus",
     has_children |-> FALSE]

got_statement(s, value, value_comments, has_children) ==
    [s EXCEPT !.st = "GotStatement", !.value = value,
              !.value_comments = value_comments, !.has_children = has_children]

unexpected_token_error(token) ==
    [tag |-> "err", message |-> "Unexpected token", position |-> token.span[1]]

\* the last fragment's comments replaced by the new comment instead of extended
PushToLast_replace(concat, text) ==
    [concat EXCEPT ![Len(concat)] = <<concat[Len(concat)][1], <<text>>>>]

\* concat.last_mut().unwrap().1.push(text)
PushToLast(concat, text) ==
    [concat EXCEPT ![Len(concat)] = <<concat[Len(concat)][1],
                                      Append(concat[Len(concat)][2], text)>>]

\* the new fragment put in the place of the last one instead of after it
PushFragment_replace(concat, text) ==
    [concat EXCEPT ![Len(concat)] = <<text, <<>>>>]

\* concat.push((token.text.to_owned(), vec![]))
PushFragment(concat, text) == Append(concat, <<text, <<>>>>)

\* the Plus arm of GotValue with a value of any kind taken as the first fragment
got_value_plus_any_value(s, token) ==
    [tag |-> "state",
     s |-> [s EXCEPT !.st = "GotStringConcat",
                     !.concat = <<<<Unwrap(s.value).text, s.value_comments>>>>,
                     !.value = None, !.value_comments = <<>>,
                     !.plus_state = "AfterPlus"]]

\* the Plus arm of GotValue with the first fragment given an empty comment list
got_value_plus_without_comments(s, token) ==
    IF Unwrap(s.value).kind = "String"
    THEN [tag |-> "state",
          s |-> [s EXCEPT !.st = "GotStringConcat",
                          !.concat = <<<<Unwrap(s.value).text, <<>>>>>>,
                          !.value = None, !.value_comments = <<>>,
                          !.plus_state = "AfterPlus"]]
    ELSE [tag |-> "err",
          message |-> "Unexpected concatenation of non-string value",
          position |-> token.span[1]]

\* the Plus arm of GotValue: "match value"
got_value_plus(s, token) ==
    IF Unwrap(s.value).kind = "String"
    THEN [tag |-> "state",
          s |-> [s EXCEPT !.st = "GotStringConcat",
                          !.concat = <<<<Unwrap(s.value).text, s.value_comments>>>>,
                          !.value = None, !.value_comments = <<>>,
                          !.plus_state = "AfterPlus"]]
    ELSE [tag |-> "err",
          message |-> "Unexpected concatenation of non-string value",
          position |-> token.span[1]]

\* PlusState::AfterPlus with the statement ended by ";" and "{" as in BeforePlus
concat_after_plus_terminated(s, token) ==
    LET tt == token.token_type IN
    IF tt \in {"WhiteSpace", "LineBreak"} THEN [tag |-> "state", s |-> s]
    ELSE IF tt = "String"
    THEN [tag |-> "state",
          s |-> [s EXCEPT !.concat = PushFragment(@, token.text),
                          !.plus_state = "BeforePlus"]]
    ELSE IF tt = "Comment"
    THEN [tag |-> "state", s |-> [s EXCEPT !.concat = PushToLast(@, token.text)]]
    ELSE IF tt = "SemiColon"
    THEN [tag |-> "break",
          s |-> got_statement(s, Some(StringConcatenation(s.concat)), <<>>, FALSE)]
    ELSE IF tt = "OpenCurlyBrace"
    THEN [tag |-> "break",
          s |-> got_statement(s, Some(StringConcatenation(s.concat)), <<>>, TRUE)]
    ELSE unexpected_token_error(token)

\* GotStringConcat in PlusState::AfterPlus
concat_after_plus(s, token) ==
    LET tt == token.token_type IN
    IF tt \in {"WhiteSpace", "LineBreak"} THEN [tag |-> "state", s |-> s]
    ELSE IF tt = "String"
    THEN [tag |-> "state",
          s |-> [s EXCEPT !.concat = PushFragment(@, token.text),
                          !.plus_state = "BeforePlus"]]
    ELSE IF tt = "Comment"
    THEN [tag |-> "state", s |-> [s EXCEPT !.concat = PushToLast(@, token.text)]]
    ELSE unexpected_token_error(token)

\* One iteration of the statement loop of parse_statement: the token just read
\* against the current state.  Yields [tag |-> "state", s |-> next state],
\* [tag |-> "break", s |-> GotStatement state] or [tag |-> "err", ...].
statement_step(s, token) ==
    LET tt == token.token_type IN
    CASE s.st = "Clean" ->
           IF tt = "Other"
           THEN [tag |-> "state", s |-> [s EXCEPT !.st = "GotKeyword", !.keyword = token.text]]
           ELSE unexpected_token_error(token)
      [] s.st = "GotKeyword" ->
           IF tt \in {"WhiteSpace", "LineBreak"} THEN [tag |-> "state", s |-> s]
           ELSE IF tt = "Comment"
           THEN [tag |-> "state",
                 s |-> [s EXCEPT !.keyword_comments = Append(@, token.text)]]
           ELSE IF tt = "SemiColon"
           THEN [tag |-> "break", s |-> got_statement(s, None, <<>>, FALSE)]
           ELSE IF tt = "OpenCurlyBrace"
           THEN [tag |-> "break", s |-> got_statement(s, None, <<>>, TRUE)]
           ELSE [tag |-> "state",
                 s |-> [s EXCEPT !.st = "GotValue", !.value = Some(NodeValueFrom(token)),
                                 !.value_comments = <<>>]]
      [] s.st = "GotValue" ->
           IF tt \in {"WhiteSpace", "LineBreak"} THEN [tag |-> "state", s |-> s]
           ELSE IF tt = "Comment"
           THEN [tag |-> "state",
                 s |-> [s EXCEPT !.value_comments = Append(@, token.text)]]
           ELSE IF tt = "SemiColon"
           THEN [tag |-> "break", s |-> got_statement(s, s.value, s.value_comments, FALSE)]
           ELSE IF tt = "OpenCurlyBrace"
           THEN [tag |-> "break", s |-> got_statement(s, s.value, s.value_comments, TRUE)]
           ELSE IF tt = "Plus" THEN got_value_plus(s, token)
           ELSE unexpected_token_error(token)
      [] s.st = "GotStringConcat" /\ s.plus_state = "BeforePlus" ->
           IF tt \in {"WhiteSpace", "LineBreak"} THEN [tag |-> "state", s |-> s]
           ELSE IF tt = "Plus"
           THEN [tag |-> "state", s |-> [s EXCEPT !.plus_state = "AfterPlus"]]
           ELSE IF tt = "Comment"
           THEN [tag |-> "state", s |-> [s EXCEPT !.concat = PushToLast(@, token.text)]]
           ELSE IF tt = "SemiColon"
           THEN [tag |-> "break",
                 s |-> got_statement(s, Some(StringConcatenation(s.concat)), <<>>, FALSE)]
           ELSE IF tt = "OpenCurlyBrace"
           THEN [tag |-> "break",
                 s |-> got_statement(s, Some(StringConcatenation(s.concat)), <<>>, TRUE)]
           ELSE unexpected_token_error(token)
      [] s.st = "GotStringConcat" /\ s.plus_state = "AfterPlus" ->
           concat_after_plus(s, token)

\* The loop "for token in token_stream.by_ref()": reads tokens from offset pos until
\* the statement breaks, an error is returned or the stream ends.
RECURSIVE statement_loop(_, _, _, _)
\* The body of the loop for the item r that the stream yields at offset pos
statement_loop_body(buffer, pos, s, last_position, r) ==
    IF ~r.ok
    THEN [tag |-> "err", pos |-> pos] @@ ParseErrorFromLexer(r.e)
    ELSE IF ~IsSome(r.v)
    THEN [tag |-> "end", s |-> s, pos |-> pos, last_position |-> last_position]
    ELSE LET token == Unwrap(r.v)[2]
             next == Unwrap(r.v)[1]
             step == statement_step(s, token)
         IN IF step.tag = "state"
            THEN statement_loop(buffer, next, step.s, Some(token.span[1]))
            ELSE IF step.tag = "break"
            THEN [tag |-> "end", s |-> step.s, pos |-> next,
                  last_position |-> Some(token.span[1])]
            ELSE step @@ [pos |-> next]

statement_loop(buffer, pos, s, last_position) ==
    statement_loop_body(buffer, pos, s, last_position, scan_iter_next(buffer, pos))

\* The loop "while let Some(token) = token_stream.peek()" that collects post-comments
RECURSIVE post_comments_loop(_, _, _)
\* The body of that loop for the item r that peek() yields at offset pos
post_comments_body(buffer, pos, post_comments, r) ==
    IF ~r.ok
    THEN [tag |-> "err", pos |-> pos] @@ ParseErrorFromLexer(r.e)
    ELSE IF ~IsSome(r.v)
    THEN [tag |-> "ok", post_comments |-> post_comments, pos |-> pos]
    ELSE LET token == Unwrap(r.v)[2]
             next == Unwrap(r.v)[1]
         IN IF token.token_type = "WhiteSpace"
            THEN post_comments_loop(buffer, next, post_comments)
            ELSE IF token.token_type = "Comment"
            THEN post_comments_loop(buffer, next, Append(post_comments, token.text))
            ELSE [tag |-> "ok", post_comments |-> post_comments, pos |-> pos]

post_comments_loop(buffer, pos, post_comments) ==
    post_comments_body(buffer, pos, post_comments, scan_iter_next(buffer, pos))

\* parse_statement on the stream at offset pos: [tag |-> "ok", statement, opens_block,
\* pos], [tag |-> "err", message, position, pos] or [tag |-> "panic", pos]
\* The Statement node built from the final state l.s and the post-comments pc
statement_node(l, pc) ==
    IF pc.tag = "err" THEN pc
    ELSE [tag |-> "ok",
          statement |-> [node |-> "Statement",
                         keyword |-> StatementKeywordFrom(l.s.keyword),
                         keyword_comments |-> l.s.keyword_comments,
                         value |-> l.s.value,
                         value_comments |-> l.s.value_comments,
                         children |-> None,
                         post_comments |-> pc.post_comments],
          opens_block |-> l.s.has_children,
          pos |-> pc.pos]

\* The final match of parse_statement on the outcome l of the statement loop
parse_statement_match(buffer, l) ==
    IF l.tag = "err" THEN l
    ELSE IF l.s.st = "GotStatement"
    THEN statement_node(l, post_comments_loop(buffer, l.pos, <<>>))
    ELSE IF l.s.st = "Clean"
    THEN [tag |-> "panic", pos |-> l.pos]
    ELSE [tag |-> "err", message |-> "Unexpected end of input",
          position |-> IF IsSome(l.last_position) THEN Unwrap(l.last_position) ELSE 0,
          pos |-> l.pos]

parse_statement(buffer, pos) ==
    parse_statement_match(buffer, statement_loop(buffer, pos, ParseStateNew, None))

(***************************************************************************)
(* Tree builder (crates/yangfmt_parsing/src/parsing.rs)                    *)
(***************************************************************************)

EmptyLine(text) == [node |-> "EmptyLine", text |-> text]
Comment(text) == [node |-> "Comment", text |-> text]

\* The locals of parse() before the first iteration
ParseStart ==
    [status |-> "running", pos |-> 0, node_stack |-> <<<<>>>>,
     prev_token_was_line_break |-> FALSE, prev_token_pos |-> 0,
     error |-> None, root |-> None]

\* nodes.push(node) on the list on top of the stack
PushNode(node_stack, node) ==
    [node_stack EXCEPT ![Len(node_stack)] = Append(@, node)]

\* The updates at the end of an iteration with a flag that only a line break changes
EndOfIteration_flag_kept(p, token) ==
    [p EXCEPT !.prev_token_was_line_break =
                  IF token.token_type = "LineBreak" THEN TRUE ELSE @,
              !.prev_token_pos = token.span[1]]

\* The flag and position updates at the end of an iteration
EndOfIteration(p, token) ==
    [p EXCEPT !.prev_token_was_line_break =
                  IF token.token_type = "LineBreak" THEN TRUE
                  ELSE IF token.token_type # "WhiteSpace" THEN FALSE ELSE @,
              !.prev_token_pos = token.span[1]]

\* The ClosingCurlyBrace arm attaching the block to the first node of the parent list
closing_curly_brace_first(p, token, next) ==
    LET nodes == p.node_stack[Len(p.node_stack)]
        popped == SubSeq(p.node_stack, 1, Len(p.node_stack) - 1)
    IN IF popped = <<>>
       THEN [p EXCEPT !.status = "err", !.node_stack = popped,
                      !.error = Some([message |-> "Unexpected closing curly brace",
                                      position |-> token.span[1]])]
       ELSE LET prev_nodes == popped[Len(popped)] IN
            IF prev_nodes # <<>> /\ prev_nodes[1].node = "Statement"
            THEN EndOfIteration(
                   [p EXCEPT !.pos = next,
                             !.node_stack =
                                 [popped EXCEPT ![Len(popped)] =
                                     [prev_nodes EXCEPT ![1] =
                                         [@ EXCEPT !.children = Some(nodes)]]]],
                   token)
            ELSE [p EXCEPT !.status = "panic", !.node_stack = popped]

\* The ClosingCurlyBrace arm
closing_curly_brace(p, token, next) ==
    LET nodes == p.node_stack[Len(p.node_stack)]
        popped == SubSeq(p.node_stack, 1, Len(p.node_stack) - 1)
    IN IF popped = <<>>
       THEN [p EXCEPT !.status = "err", !.node_stack = popped,
                      !.error = Some([message |-> "Unexpected closing curly brace",
                                      position |-> token.span[1]])]
       ELSE LET prev_nodes == popped[Len(popped)] IN
            IF prev_nodes # <<>> /\ prev_nodes[Len(prev_nodes)].node = "Statement"
            THEN EndOfIteration(
                   [p EXCEPT !.pos = next,
                             !.node_stack =
                                 [popped EXCEPT ![Len(popped)] =
                                     [prev_nodes EXCEPT ![Len(prev_nodes)] =
                                         [@ EXCEPT !.children = Some(nodes)]]]],
                   token)
            ELSE [p EXCEPT !.status = "panic", !.node_stack = popped]

\* The statement arm pushing the list of a block before the statement that opens it
statement_arm_result_list_first(p, token, r) ==
    IF r.tag = "err"
    THEN [p EXCEPT !.status = "err", !.pos = r.pos,
                   !.error = Some([message |-> r.message, position |-> r.position])]
    ELSE IF r.tag = "panic"
    THEN [p EXCEPT !.status = "panic", !.pos = r.pos]
    ELSE EndOfIteration(
           [p EXCEPT !.pos = r.pos,
                     !.node_stack =
                         IF r.opens_block
                         THEN PushNode(Append(@, <<>>), r.statement)
                         ELSE PushNode(@, r.statement)],
           token)

\* The statement arm: parse_statement(&mut token_stream)?
statement_arm_result(p, token, r) ==
    IF r.tag = "err"
    THEN [p EXCEPT !.status = "err", !.pos = r.pos,
                   !.error = Some([message |-> r.message, position |-> r.position])]
    ELSE IF r.tag = "panic"
    THEN [p EXCEPT !.status = "panic", !.pos = r.pos]
    ELSE EndOfIteration(
           [p EXCEPT !.pos = r.pos,
                     !.node_stack =
                         IF r.opens_block
                         THEN Append(PushNode(@, r.statement), <<>>)
                         ELSE PushNode(@, r.statement)],
           token)

statement_arm(buffer, p, token) ==
    statement_arm_result(p, token, parse_statement(buffer, p.pos))

\* After the loop: the unclosed-block check and the root node
parse_finish(p) ==
    IF Len(p.node_stack) > 1
    THEN [p EXCEPT !.status = "err",
                   !.error = Some([message |-> "Unclosed block at end of file",
                                   position |-> p.prev_token_pos])]
    ELSE [p EXCEPT !.status = "ok",
                   !.root = Some(p.node_stack[Len(p.node_stack)]),
                   !.node_stack = <<>>]

\* One iteration of the loop of parse() with a WhiteSpace arm that leaves the token in
\* the stream
parse_iteration_body_whitespace_kept(buffer, p, r) ==
    IF ~r.ok THEN [p EXCEPT !.status = "err", !.error = Some(ParseErrorFromLexer(r.e))]
    ELSE IF ~IsSome(r.v) THEN parse_finish(p)
    ELSE LET token == Unwrap(r.v)[2]
             next == Unwrap(r.v)[1]
         IN CASE token.token_type = "WhiteSpace" -> EndOfIteration(p, token)
              [] token.token_type = "LineBreak" ->
                   EndOfIteration(
                     [p EXCEPT !.pos = next,
                               !.node_stack = IF p.prev_token_was_line_break
                                              THEN PushNode(@, EmptyLine(token.text))
                                              ELSE @],
                     token)
              [] token.token_type = "Comment" ->
                   EndOfIteration(
                     [p EXCEPT !.pos = next,
                               !.node_stack = PushNode(@, Comment(token.text))],
                     token)
              [] token.token_type = "ClosingCurlyBrace" ->
                   closing_curly_brace(p, token, next)
              [] OTHER -> statement_arm(buffer, p, token)

\* One iteration of the loop of parse(), with the code after the loop when the
\* stream has ended
parse_iteration_body(buffer, p, r) ==
    IF ~r.ok THEN [p EXCEPT !.status = "err", !.error = Some(ParseErrorFromLexer(r.e))]
    ELSE IF ~IsSome(r.v) THEN parse_finish(p)
    ELSE LET token == Unwrap(r.v)[2]
             next == Unwrap(r.v)[1]
         IN CASE token.token_type = "WhiteSpace" ->
                   EndOfIteration([p EXCEPT !.pos = next], token)
              [] token.token_type = "LineBreak" ->
                   EndOfIteration(
                     [p EXCEPT !.pos = next,
                               !.node_stack = IF p.prev_token_was_line_break
                                              THEN PushNode(@, EmptyLine(token.text))
                                              ELSE @],
                     token)
              [] token.token_type = "Comment" ->
                   EndOfIteration(
                     [p EXCEPT !.pos = next,
                               !.node_stack = PushNode(@, Comment(token.text))],
                     token)
              [] token.token_type = "ClosingCurlyBrace" ->
                   closing_curly_brace(p, token, next)
              [] OTHER -> statement_arm(buffer, p, token)

parse_iteration(buffer, p) ==
    parse_iteration_body(buffer, p, scan_iter_next(buffer, p.pos))

\* parse(buffer): the loop run to its end
RECURSIVE parse_loop(_, _)
parse_loop(buffer, p) ==
    IF p.status # "running" THEN p ELSE parse_loop(buffer, parse_iteration(buffer, p))

parse(buffer) == parse_loop(buffer, ParseStart)

(***************************************************************************)
(* Formatting transform (crates/yangfmt_formatting/src/formatting.rs)      *)
(***************************************************************************)

\* bytes of char::is_ascii_whitespace and of char::is_whitespace among ASCII
FORM_FEED == 12
VERTICAL_TAB == 11
is_ascii_whitespace(c) == c \in {SPACE, TAB, LF, FORM_FEED, CR}
is_whitespace(c) == c \in {SPACE, TAB, LF, VERTICAL_TAB, FORM_FEED, CR}

is_empty_line(node) == node.node = "EmptyLine"
IsStringValue(node) ==
    node.node = "Statement" /\ IsSome(node.value) /\ Unwrap(node.value).kind = "String"
IsConcatValue(node) ==
    node.node = "Statement" /\ IsSome(node.value)
    /\ Unwrap(node.value).kind = "StringConcatenation"
SetValueText(node, text) ==
    [node EXCEPT !.value = Some([Unwrap(@) EXCEPT !.text = text])]

\* The closures of convert_to_double_quotes
is_single_quoted(str) == Len(str) > 0 /\ str[1] = SINGLE_QUOTE
contains_quote(str) == \E k \in 2..Len(str) - 1 : str[k] = DOUBLE_QUOTE
set_double_quotes(str) ==
    [k \in 1..Len(str) |-> IF k = 1 \/ k = Len(str) THEN DOUBLE_QUOTE ELSE str[k]]

\* the conversion without the test for an inner '"'
requote_always(str) ==
    IF ~is_single_quoted(str) THEN str ELSE set_double_quotes(str)

\* "if !is_single_quoted(string) || contains_quote(string) { return / continue }"
requote(str) ==
    IF ~is_single_quoted(str) \/ contains_quote(str) THEN str ELSE set_double_quotes(str)

\* convert_to_double_quotes: single-quoted values and fragments without an inner '"'
convert_to_double_quotes(node) ==
    IF IsStringValue(node) THEN SetValueText(node, requote(Unwrap(node.value).text))
    ELSE IF IsConcatValue(node)
    THEN [node EXCEPT !.value =
            Some([Unwrap(@) EXCEPT !.parts =
                    [k \in 1..Len(Unwrap(node.value).parts) |->
                        <<requote(Unwrap(node.value).parts[k][1]),
                          Unwrap(node.value).parts[k][2]>>]])]
    ELSE node

\* slice.find(|c| !c.is_ascii_whitespace()): 0-based index of the first match from k
RECURSIVE find_not_ascii_whitespace(_, _)
find_not_ascii_whitespace(slice, k) ==
    IF k > Len(slice) THEN None
    ELSE IF ~is_ascii_whitespace(slice[k]) THEN Some(k - 1)
    ELSE find_not_ascii_whitespace(slice, k + 1)

\* slice.chars().rev().position(|c| !c.is_whitespace()), looking down from k
RECURSIVE rposition_not_whitespace(_, _)
rposition_not_whitespace(slice, k) ==
    IF k < 1 THEN None
    ELSE IF ~is_whitespace(slice[k]) THEN Some(Len(slice) - k)
    ELSE rposition_not_whitespace(slice, k - 1)

\* text.drain(a..b)
Drain(text, a, b) == SubSeq(text, 1, a) \o SubSeq(text, b + 1, Len(text))

\* strip_string: leading and trailing whitespace of the content of a quoted value
strip_string(node) ==
    IF ~IsStringValue(node) THEN node
    ELSE LET text == Unwrap(node.value).text
             slice == SubSeq(text, 2, Len(text) - 1)
             found == find_not_ascii_whitespace(slice, 1)
         IN IF ~IsSome(found) THEN SetValueText(node, <<DOUBLE_QUOTE, DOUBLE_QUOTE>>)
            ELSE LET text_start == 1 + Unwrap(found)
                     rpos == rposition_not_whitespace(slice, Len(slice))
                     text_end == Len(text) - (IF IsSome(rpos) THEN Unwrap(rpos) ELSE 0) - 2
                     t1 == IF text_end < Len(text) - 2
                           THEN Drain(text, text_end + 1, Len(text) - 1) ELSE text
                     t2 == IF text_start > 1 THEN Drain(t1, 1, text_start) ELSE t1
                 IN SetValueText(node, t2)

\* str::lines: split at "\n", a "\r" before it is dropped, no final empty line
RECURSIVE LinesFrom(_, _, _)
LinesFrom(text, start, k) ==
    IF k > Len(text)
    THEN IF start > Len(text) THEN <<>> ELSE <<SubSeq(text, start, Len(text))>>
    ELSE IF text[k] = LF
    THEN LET end == IF k - 1 >= start /\ text[k - 1] = CR THEN k - 2 ELSE k - 1
         IN <<SubSeq(text, start, end)>> \o LinesFrom(text, k + 1, k + 1)
    ELSE LinesFrom(text, start, k + 1)

Lines(text) == LinesFrom(text, 1, 1)

\* lines.join("\n")
RECURSIVE JoinLines(_)
JoinLines(lines) ==
    IF lines = <<>> THEN <<>>
    ELSE IF Len(lines) = 1 THEN lines[1]
    ELSE lines[1] \o <<LF>> \o JoinLines(Tail(lines))

\* textwrap::dedent, as called by dedent_multilined_string ---------------------
\* length of the leading whitespace of a line
RECURSIVE LeadingWs(_, _)
LeadingWs(line, k) ==
    IF k <= Len(line) /\ is_whitespace(line[k]) THEN LeadingWs(line, k + 1) ELSE k - 1

HasText(line) == \E k \in 1..Len(line) : ~is_whitespace(line[k])

\* index of the first mismatch between line and prefix (zip), or Len(line)
RECURSIVE MismatchIdx(_, _, _)
MismatchIdx(line, prefix, k) ==
    IF k > Len(line) \/ k > Len(prefix) THEN Len(line)
    ELSE IF line[k] # prefix[k] THEN k - 1 ELSE MismatchIdx(line, prefix, k + 1)

\* the second loop of dedent: shorten the prefix over the remaining lines
RECURSIVE ShortenPrefix(_, _, _)
ShortenPrefix(lines, k, prefix) ==
    IF k > Len(lines) THEN prefix
    ELSE LET idx == MismatchIdx(lines[k], prefix, 1)
         IN IF idx < Len(lines[k]) /\ idx < Len(prefix)
            THEN ShortenPrefix(lines, k + 1, SubSeq(lines[k], 1, idx))
            ELSE ShortenPrefix(lines, k + 1, prefix)

\* the first loop of dedent: the first line with text gives the prefix
RECURSIVE DedentPrefix(_, _)
DedentPrefix(lines, k) ==
    IF k > Len(lines) THEN <<>>
    ELSE IF HasText(lines[k])
    THEN ShortenPrefix(lines, k + 1, SubSeq(lines[k], 1, LeadingWs(lines[k], 1)))
    ELSE DedentPrefix(lines, k + 1)

StartsWith(line, prefix) ==
    Len(line) >= Len(prefix) /\ SubSeq(line, 1, Len(prefix)) = prefix

RECURSIVE DedentBuild(_, _, _)
DedentBuild(lines, k, prefix) ==
    IF k > Len(lines) THEN <<>>
    ELSE (IF StartsWith(lines[k], prefix) /\ HasText(lines[k])
          THEN SubSeq(lines[k], Len(prefix) + 1, Len(lines[k])) ELSE <<>>)
         \o <<LF>> \o DedentBuild(lines, k + 1, prefix)

dedent(s) ==
    LET lines == Lines(s)
        result == DedentBuild(lines, 1, DedentPrefix(lines, 1))
    IN IF result # <<>> /\ ~(s # <<>> /\ s[Len(s)] = LF)
       THEN SubSeq(result, 1, Len(result) - 1) ELSE result

\* dedent_multilined_string
dedent_multilined_string(node) ==
    IF ~IsStringValue(node) THEN node
    ELSE LET full == Unwrap(node.value).text
             quotechar == full[1]
             text == SubSeq(full, 2, Len(full) - 1)
             lines == Lines(text)
         IN IF Len(lines) < 2 THEN node
            ELSE LET rest == dedent(JoinLines(Tail(lines)))
                 IN SetValueText(node,
                      <<quotechar>> \o lines[1] \o <<LF>> \o rest \o <<quotechar>>)

\* trim_line_breaks
RECURSIVE trim_front(_)
trim_front(statements) ==
    IF statements # <<>> /\ is_empty_line(statements[1])
    THEN trim_front(Tail(statements)) ELSE statements

RECURSIVE trim_back(_)
trim_back(statements) ==
    IF statements # <<>> /\ is_empty_line(statements[Len(statements)])
    THEN trim_back(SubSeq(statements, 1, Len(statements) - 1)) ELSE statements

trim_line_breaks(statements) == trim_back(trim_front(statements))

\* the loop with the index advanced after a removal too
RECURSIVE squash_loop_skip(_, _)
squash_loop_skip(statements, i) ==
    IF i >= Len(statements) THEN statements
    ELSE IF is_empty_line(statements[i + 1]) /\ is_empty_line(statements[i])
    THEN squash_loop_skip(Drain(statements, i, i + 1), i + 1)
    ELSE squash_loop_skip(statements, i + 1)

\* squash_line_breaks: i is the 0-based index of the loop
RECURSIVE squash_loop(_, _)
squash_loop(statements, i) ==
    IF i >= Len(statements) THEN statements
    ELSE IF is_empty_line(statements[i + 1]) /\ is_empty_line(statements[i])
    THEN squash_loop(Drain(statements, i, i + 1), i)
    ELSE squash_loop(statements, i + 1)

squash_line_breaks(statements) == squash_loop(statements, 1)

\* relocate_pre_block_comments appending the value comments before the keyword comments
relocate_value_comments_first(nodes) ==
    [k \in 1..Len(nodes) |->
        IF nodes[k].node = "Statement"
        THEN [nodes[k] EXCEPT
                !.post_comments = (@ \o nodes[k].value_comments) \o nodes[k].keyword_comments,
                !.keyword_comments = <<>>,
                !.value_comments = <<>>]
        ELSE nodes[k]]

\* relocate_pre_block_comments
relocate_pre_block_comments(nodes) ==
    [k \in 1..Len(nodes) |->
        IF nodes[k].node = "Statement"
        THEN [nodes[k] EXCEPT
                !.post_comments = (@ \o nodes[k].keyword_comments) \o nodes[k].value_comments,
                !.keyword_comments = <<>>,
                !.value_comments = <<>>]
        ELSE nodes[k]]

\* LEAF_CANONICAL_ORDER: the keywords in the order of their values 1 to 14
LEAF_CANONICAL_ORDER ==
    <<
       <<119, 104, 101, 110>>, \* when
       <<105, 102, 45, 102, 101, 97, 116, 117, 114, 101>>, \* if-feature
       <<116, 121, 112, 101>>, \* type
       <<117, 110, 105, 116, 115>>, \* units
       <<109, 117, 115, 116>>, \* must
       <<100, 101, 102, 97, 117, 108, 116>>, \* default
       <<99, 111, 110, 102, 105, 103>>, \* config
       <<109, 105, 110, 45, 101, 108, 101, 109, 101, 110, 116, 115>>, \* min-elements
       <<109, 97, 120, 45, 101, 108, 101, 109, 101, 110, 116, 115>>, \* max-elements
       <<111, 114, 100, 101, 114, 101, 100, 45, 98, 121>>, \* ordered-by
       <<109, 97, 110, 100, 97, 116, 111, 114, 121>>, \* mandatory
       <<115, 116, 97, 116, 117, 115>>, \* status
       <<100, 101, 115, 99, 114, 105, 112, 116, 105, 111, 110>>, \* description
       <<114, 101, 102, 101, 114, 101, 110, 99, 101>> \* reference
    >>

\* the keyword "leaf" of the match in sort_statements
LEAF == <<108, 101, 97, 102>>

\* u8::MAX, the order of a node that is no statement or has no entry
U8_MAX == 255

\* the loop of is_sorted over the first count nodes, i being the next one:
\* statements.iter().take(count); previous is set by the first statement only
RECURSIVE is_sorted_loop(_, _, _, _, _)
is_sorted_loop(order_mapping, statements, count, i, previous) ==
    IF i > count \/ i > Len(statements) THEN TRUE
    ELSE IF statements[i].node = "Statement"
    THEN LET text == KeywordText(statements[i].keyword)
             sort_value ==
                 IF \E k \in 1..Len(order_mapping) : order_mapping[k] = text
                 THEN CHOOSE k \in 1..Len(order_mapping) : order_mapping[k] = text
                 ELSE U8_MAX
         IN  IF previous = None
             THEN is_sorted_loop(order_mapping, statements, count, i + 1, Some(sort_value))
             ELSE IF sort_value < Unwrap(previous)
             THEN FALSE
             ELSE is_sorted_loop(order_mapping, statements, count, i + 1, previous)
    ELSE is_sorted_loop(order_mapping, statements, count, i + 1, previous)

\* is_sorted. statements.len() - 1 is a subtraction in usize: for the empty list it
\* panics in a build with overflow checks (the dev profile) and wraps to usize::MAX in
\* a build without them (the release profile), where take(usize::MAX) takes every node
is_sorted(order_mapping, statements, overflow_checks) ==
    IF Len(statements) = 0 /\ overflow_checks
    THEN [panic |-> TRUE, value |-> FALSE]
    ELSE [panic |-> FALSE,
          value |-> is_sorted_loop(order_mapping, statements,
                                   IF Len(statements) = 0
                                   THEN Len(statements)
                                   ELSE Len(statements) - 1,
                                   1, None)]

\* get_order_for
get_order_for(order_mapping, node) ==
    IF node.node = "Statement"
       /\ \E i \in 1..Len(order_mapping) : order_mapping[i] = KeywordText(node.keyword)
    THEN CHOOSE i \in 1..Len(order_mapping) : order_mapping[i] = KeywordText(node.keyword)
    ELSE U8_MAX

\* node put into the sorted list after the last node whose order is not greater
RECURSIVE sort_insert(_, _, _)
sort_insert(order_mapping, sorted, node) ==
    IF sorted = <<>> THEN <<node>>
    ELSE IF get_order_for(order_mapping, sorted[Len(sorted)])
            <= get_order_for(order_mapping, node)
    THEN Append(sorted, node)
    ELSE Append(sort_insert(order_mapping, SubSeq(sorted, 1, Len(sorted) - 1), node),
                sorted[Len(sorted)])

\* sort_statements_with: statements.sort_by(order), a stable sort
RECURSIVE sort_statements_with(_, _)
sort_statements_with(order_mapping, statements) ==
    IF statements = <<>> THEN <<>>
    ELSE sort_insert(order_mapping,
                     sort_statements_with(order_mapping,
                                          SubSeq(statements, 1, Len(statements) - 1)),
                     statements[Len(statements)])

\* the body that is commented out taken as code: the children of a leaf are sorted
sort_statements_leaf(parent_node_name, statements) ==
    IF parent_node_name = Some(LEAF)
    THEN sort_statements_with(LEAF_CANONICAL_ORDER, statements)
    ELSE statements

\* canonical_order::sort_statements: the body is commented out
sort_statements(parent_node_name, statements) == statements

\* process_statements
RECURSIVE process_statements(_, _, _)
process_statements(parent_node_name, statements, config) ==
    LET per_node(node) ==
            LET recursed ==
                    IF node.node = "Statement" /\ IsSome(node.children)
                    THEN [node EXCEPT !.children =
                            Some(process_statements(Some(KeywordText(node.keyword)),
                                                    Unwrap(node.children), config))]
                    ELSE node
            IN dedent_multilined_string(strip_string(convert_to_double_quotes(recursed)))
        nodes == [k \in 1..Len(statements) |-> per_node(statements[k])]
        relocated == relocate_pre_block_comments(squash_line_breaks(trim_line_breaks(nodes)))
    IN IF config.fix_canonical_order
       THEN sort_statements(parent_node_name, relocated) ELSE relocated

(***************************************************************************)
(* Printer (write_node)                                                    *)
(***************************************************************************)
U16 == 65536
U8 == 256

Spaces(n) == [k \in 1..n |-> SPACE]

\* indent!(depth)
indent(config, depth) == Spaces(depth * config.indent_width)

\* " {comment}" for each comment
RECURSIVE write_comments(_)
write_comments(comments) ==
    IF comments = <<>> THEN <<>>
    ELSE (<<SPACE>> \o comments[1]) \o write_comments(Tail(comments))

\* line_pos: (config.indent_width() as u16) * depth + (kw_text.len() as u16), in u16
line_pos_of(config, depth, kw_text) ==
    (((config.indent_width * depth) % U16) + (Len(kw_text) % U16)) % U16

\* $line_pos + ($value.len() as u16) + 2, in u16
line_end_of(line_pos, value) == (line_pos + (Len(value) % U16) + 2) % U16

\* extra_indent: config.indent_width() + 1, in u8
extra_indent_of(config) == (config.indent_width + 1) % U8

\* write_simple_value!
write_simple_value(config, depth, line_pos, value) ==
    (IF line_end_of(line_pos, value) > config.line_length
     THEN <<LF>> \o indent(config, depth + 1) ELSE <<SPACE>>) \o value

\* the continuation lines with the indentation written before empty lines too
RECURSIVE write_more_lines_all_indented(_, _, _, _)
write_more_lines_all_indented(config, depth, lines, extra_indent) ==
    IF lines = <<>> THEN <<>>
    ELSE (<<LF>> \o indent(config, depth) \o Spaces(extra_indent) \o lines[1])
         \o write_more_lines_all_indented(config, depth, Tail(lines), extra_indent)

\* the continuation lines of a multi-line string
RECURSIVE write_more_lines(_, _, _, _)
write_more_lines(config, depth, lines, extra_indent) ==
    IF lines = <<>> THEN <<>>
    ELSE (<<LF>>
          \o (IF lines[1] # <<>> THEN indent(config, depth) \o Spaces(extra_indent)
              ELSE <<>>)
          \o lines[1])
         \o write_more_lines(config, depth, Tail(lines), extra_indent)

\* the later fragments of a concatenation
RECURSIVE write_concat_rest(_, _, _, _)
write_concat_rest(config, depth, pad, rest) ==
    IF rest = <<>> THEN <<>>
    ELSE (<<LF>> \o indent(config, depth) \o Spaces(pad)
          \o <<SPACE, PLUS, SPACE>> \o rest[1][1] \o write_comments(rest[1][2]))
         \o write_concat_rest(config, depth, pad, Tail(rest))

\* write_value!
write_value(config, depth, node) ==
    LET kw_text == KeywordText(node.keyword)
        line_pos == line_pos_of(config, depth, kw_text)
        value == Unwrap(node.value)
    IN (IF value.kind \in {"Date", "Number", "Other"}
        THEN write_simple_value(config, depth, line_pos, value.text)
        ELSE IF value.kind = "String"
        THEN IF \E k \in 1..Len(value.text) : value.text[k] = LF
             THEN LET lines == Lines(value.text)
                      extra_indent == extra_indent_of(config)
                  IN <<LF>> \o indent(config, depth + 1) \o lines[1]
                     \o write_more_lines(config, depth, Tail(lines), extra_indent)
             ELSE write_simple_value(config, depth, line_pos, value.text)
        ELSE LET kwlen == Len(kw_text)
                 pad == IF kwlen >= 2 THEN kwlen - 2 ELSE 0
                 concat == value.parts
             IN <<SPACE>> \o concat[1][1] \o write_comments(concat[1][2])
                \o write_concat_rest(config, depth, pad, Tail(concat)))
       \o write_comments(node.value_comments)

\* an addition or multiplication of write_value! leaves the range of its type for
\* node: the operation that panics in a build with overflow checks
value_overflows(config, depth, node) ==
    LET kw_text == KeywordText(node.keyword)
        value == Unwrap(node.value)
        simple == \/ value.kind \in {"Date", "Number", "Other"}
                  \/ /\ value.kind = "String"
                     /\ \A k \in 1..Len(value.text) : value.text[k] # LF
    IN \/ config.indent_width * depth >= U16
       \/ ((config.indent_width * depth) % U16) + (Len(kw_text) % U16) >= U16
       \/ /\ simple
          /\ \/ line_pos_of(config, depth, kw_text) + (Len(value.text) % U16) >= U16
             \/ ((line_pos_of(config, depth, kw_text) + (Len(value.text) % U16)) % U16) + 2
                   >= U16
       \/ /\ value.kind = "String"
          /\ \E k \in 1..Len(value.text) : value.text[k] = LF
          /\ config.indent_width + 1 >= U8

\* write_node(node, config, depth) meets such an operation, in node or below it
RECURSIVE write_overflows(_, _, _)
write_overflows(node, config, depth) ==
    /\ node.node = "Statement"
    /\ \/ IsSome(node.value) /\ value_overflows(config, depth, node)
       \/ /\ IsSome(node.children)
          /\ \E k \in 1..Len(Unwrap(node.children)) :
                write_overflows(Unwrap(node.children)[k], config, depth + 1)

\* write_keyword!: the keyword's text, whatever its tag, and the keyword comments
write_keyword(node) ==
    (CASE node.keyword.tag = "Keyword" -> node.keyword.text
       [] node.keyword.tag = "ExtensionKeyword" -> node.keyword.text
       [] node.keyword.tag = "Invalid" -> node.keyword.text)
    \o write_comments(node.keyword_comments)

\* write_node with write! in the place of writeln! in the Comment arm
RECURSIVE write_node(_, _, _)
write_node_comment_no_newline(node, config, depth) ==
    LET RECURSIVE write_children(_)
        write_children(children) ==
            IF children = <<>> THEN <<>>
            ELSE write_node(children[1], config, depth + 1) \o write_children(Tail(children))
    IN CASE node.node = "Statement" ->
              indent(config, depth) \o write_keyword(node)
              \o (IF IsSome(node.value) THEN write_value(config, depth, node) ELSE <<>>)
              \o (IF IsSome(node.children)
                  THEN <<SPACE, LEFT_CURLY_BRACKET>> \o write_comments(node.post_comments)
                       \o <<LF>> \o write_children(Unwrap(node.children))
                       \o indent(config, depth) \o <<RIGHT_CURLY_BRACKET>>
                  ELSE <<SEMICOLON>> \o write_comments(node.post_comments))
              \o <<LF>>
         [] node.node = "Comment" -> indent(config, depth) \o node.text
         [] node.node = "EmptyLine" -> <<LF>>

\* write_node: the bytes written for node at depth
write_node(node, config, depth) ==
    LET RECURSIVE write_children(_)
        write_children(children) ==
            IF children = <<>> THEN <<>>
            ELSE write_node(children[1], config, depth + 1) \o write_children(Tail(children))
    IN CASE node.node = "Statement" ->
              indent(config, depth) \o write_keyword(node)
              \o (IF IsSome(node.value) THEN write_value(config, depth, node) ELSE <<>>)
              \o (IF IsSome(node.children)
                  THEN <<SPACE, LEFT_CURLY_BRACKET>> \o write_comments(node.post_comments)
                       \o <<LF>> \o write_children(Unwrap(node.children))
                       \o indent(config, depth) \o <<RIGHT_CURLY_BRACKET>>
                  ELSE <<SEMICOLON>> \o write_comments(node.post_comments))
              \o <<LF>>
         [] node.node = "Comment" -> indent(config, depth) \o node.text \o <<LF>>
         [] node.node = "EmptyLine" -> <<LF>>

\* the loop of format_yang over the root's children
RECURSIVE write_nodes(_, _)
write_nodes(nodes, config) ==
    IF nodes = <<>> THEN <<>>
    ELSE write_node(nodes[1], config, 0) \o write_nodes(Tail(nodes), config)

\* format_yang: Err(parse error) with nothing written, or Ok with the bytes written
format_yang(buffer, config) ==
    LET tree == parse(buffer) IN
    IF tree.status # "ok"
    THEN [status |-> tree.status, error |-> tree.error, out |-> <<>>]
    ELSE [status |-> "ok", error |-> None,
          out |-> write_nodes(process_statements(None, Unwrap(tree.root), config), config)]

(***************************************************************************)
(* The single-crate program (src/parsing.rs, src/formatting.rs) on files   *)
(* without statements: comments, line breaks, whitespace and the tokens    *)
(* that parse_statements rejects in its Clean state                        *)
(***************************************************************************)
LineBreak(text) == [node |-> "LineBreak", text |-> text]

\* parse_statements in ParseState::Clean, for the token that ScanIterator::next
\* yields at offset pos; next() panics on an error of next_token.  A keyword leads
\* to ParseState::GotKeyword, which is not followed here.
RECURSIVE legacy_parse_statements(_, _, _)
legacy_parse_clean(buffer, pos, statements, r) ==
    IF ~r.ok THEN [status |-> "panic", children |-> <<>>]
    ELSE IF ~IsSome(r.v) THEN [status |-> "ok", children |-> statements]
    ELSE LET token == Unwrap(r.v)[2]
             next == Unwrap(r.v)[1]
         IN CASE token.token_type = "WhiteSpace" ->
                   legacy_parse_statements(buffer, next, statements)
              [] token.token_type = "LineBreak" ->
                   legacy_parse_statements(buffer, next,
                                           Append(statements, LineBreak(token.text)))
              [] token.token_type = "Comment" ->
                   legacy_parse_statements(buffer, next,
                                           Append(statements, Comment(token.text)))
              [] token.token_type = "ClosingCurlyBrace" ->
                   [status |-> "ok", children |-> statements]
              [] token.token_type = "Other" ->
                   [status |-> "keyword", children |-> statements]
              [] OTHER -> [status |-> "err", children |-> <<>>]

legacy_parse_statements(buffer, pos, statements) ==
    legacy_parse_clean(buffer, pos, statements, next_token(buffer, pos))

\* parse of src/parsing.rs
legacy_parse(buffer) == legacy_parse_statements(buffer, 0, <<>>)

legacy_is_line_break(node) == node.node = "LineBreak"

\* trim_line_breaks of src/formatting.rs: the line breaks after a leading line
\* break, and those before a trailing one, are removed
RECURSIVE legacy_trim_front(_)
legacy_trim_front(statements) ==
    IF Len(statements) >= 2 /\ legacy_is_line_break(statements[1])
       /\ legacy_is_line_break(statements[2])
    THEN legacy_trim_front(Drain(statements, 1, 2))
    ELSE statements

RECURSIVE legacy_trim_back(_)
legacy_trim_back(statements) ==
    IF Len(statements) >= 2 /\ legacy_is_line_break(statements[Len(statements)])
       /\ legacy_is_line_break(statements[Len(statements) - 1])
    THEN legacy_trim_back(Drain(statements, Len(statements) - 2, Len(statements) - 1))
    ELSE statements

legacy_trim_line_breaks(statements) == legacy_trim_back(legacy_trim_front(statements))

\* squash_line_breaks of src/formatting.rs: i is the 0-based index of the loop
RECURSIVE legacy_squash_loop(_, _)
legacy_squash_loop(statements, i) ==
    IF i >= Len(statements) THEN statements
    ELSE IF legacy_is_line_break(statements[i + 1]) /\ legacy_is_line_break(statements[i])
            /\ legacy_is_line_break(statements[i - 1])
    THEN legacy_squash_loop(Drain(statements, i, i + 1), i)
    ELSE legacy_squash_loop(statements, i + 1)

\* process_statements of src/formatting.rs on a list without statements
legacy_process_statements(statements) ==
    legacy_squash_loop(legacy_trim_line_breaks(statements), 2)

\* write_node of src/formatting.rs for each Comment and LineBreak node
RECURSIVE legacy_write_nodes(_)
legacy_write_nodes(nodes) ==
    IF nodes = <<>> THEN <<>>
    ELSE (IF legacy_is_line_break(nodes[1]) THEN <<LF>> ELSE nodes[1].text)
         \o legacy_write_nodes(Tail(nodes))

\* the line break that format_yang adds when the last node is none
legacy_end_with_line_break(children) ==
    IF children # <<>> /\ legacy_is_line_break(children[Len(children)]) THEN children
    ELSE Append(children, LineBreak(<<LF>>))

\* format_yang of src/formatting.rs
legacy_format_yang_tree(tree) ==
    IF tree.status # "ok" THEN [status |-> tree.status, out |-> <<>>]
    ELSE [status |-> "ok",
          out |-> legacy_write_nodes(
                      legacy_end_with_line_break(legacy_process_statements(tree.children)))]

legacy_format_yang(buffer) == legacy_format_yang_tree(legacy_parse(buffer))

(***************************************************************************)
(* Inputs                                                                  *)
(***************************************************************************)
\* bytes the scanned buffers of the lexer specification are drawn from
LexBytes == {LETTER_a, SPACE, LF, CR, DOUBLE_QUOTE, SINGLE_QUOTE, BACKSLASH,
             SLASH, ASTERISK, SEMICOLON}

Buffers(S, n) == UNION {[1..k -> S] : k \in 0..n}

RECURSIVE Flatten(_)
Flatten(chunks) == IF chunks = <<>> THEN <<>> ELSE chunks[1] \o Flatten(Tail(chunks))

BlockComment == <<SPACE, SLASH, ASTERISK, LETTER_c, ASTERISK, SLASH>>       \* " /*c*/"
LineComment == <<SPACE, SLASH, SLASH, LETTER_b>>                            \* " //b"
LineCommentNl == LineComment \o <<LF>>

\* Documents of structure: up to MaxItems chunks of statements, braces, blank
\* lines, whitespace, comments and an unterminated comment
StructChunks ==
    { <<LETTER_a, SEMICOLON>>,                          \* "a;"
      <<LETTER_a, SPACE, LEFT_CURLY_BRACKET>>,           \* "a {"
      <<RIGHT_CURLY_BRACKET>>,                           \* "}"
      <<LF>>,
      <<SPACE>>,
      <<SLASH, ASTERISK, LETTER_c, ASTERISK, SLASH>>,    \* "/*c*/"
      <<LETTER_a, SPACE, RIGHT_CURLY_BRACKET, SEMICOLON>>,   \* "a };"
      <<SLASH, ASTERISK>> }                              \* "/*"

StructDocs == {Flatten(s) : s \in Buffers(StructChunks, MaxItems)}

\* Documents of one statement: keyword, comments, value, comments, terminator,
\* post-comments
CommentRuns ==
    { <<>>, BlockComment, LineCommentNl, BlockComment \o LineCommentNl,
      LineCommentNl \o BlockComment }
FragmentComments == { <<>>, BlockComment, LineCommentNl }
PostComments == { <<>>, BlockComment, LineComment, BlockComment \o LineComment }
SimpleValues ==
    { <<SPACE, DIGIT_1>>,                                               \* 1
      <<SPACE, SINGLE_QUOTE, LETTER_b, SINGLE_QUOTE>>,                  \* 'b'
      <<SPACE, DOUBLE_QUOTE, SPACE, LETTER_b, BACKSLASH, SPACE, DOUBLE_QUOTE>>,
                                                                        \* " b\ "
      <<SPACE, DOUBLE_QUOTE, LETTER_b, LF, SPACE, SPACE, SPACE, LETTER_c,
        LF, SPACE, SPACE, LETTER_a, DOUBLE_QUOTE>> }                    \* multi-line
Terminators ==
    { [open |-> <<SEMICOLON>>, close |-> <<LF>>],
      [open |-> <<SPACE, LEFT_CURLY_BRACKET>>, close |-> <<LF, RIGHT_CURLY_BRACKET, LF>>] }
Fragment1 == <<SPACE, SINGLE_QUOTE, LETTER_b, SINGLE_QUOTE>>            \* 'b'
Fragment2 == <<SPACE, DOUBLE_QUOTE, LETTER_c, DOUBLE_QUOTE>>            \* "c"

StatementDocs ==
    { <<LETTER_a>> \o kc \o t.open \o pc \o t.close :
         kc \in CommentRuns, t \in Terminators, pc \in PostComments }
    \cup
    { <<LETTER_a>> \o kc \o v \o vc \o t.open \o pc \o t.close :
         kc \in CommentRuns, v \in SimpleValues, vc \in CommentRuns,
         t \in Terminators, pc \in PostComments }
    \cup
    { <<LETTER_a>> \o kc \o Fragment1 \o f1 \o <<SPACE, PLUS>> \o f2 \o Fragment2 \o f3
         \o t.open \o pc \o t.close :
         kc \in {<<>>, BlockComment}, f1 \in FragmentComments, f2 \in FragmentComments,
         f3 \in FragmentComments, t \in Terminators, pc \in PostComments }

\* Documents that stop in an unterminated comment or string: after nothing, in the
\* statement loop (after the keyword, a value, a fragment, a "+"), and after the
\* terminator where post-comments are collected
Unterminated ==
    { <<SPACE, SLASH, ASTERISK>>,                        \* " /*"
      <<SPACE, DOUBLE_QUOTE, LETTER_b>> }                \* ' "b'
StatementPrefixes ==
    { <<>>,
      <<LETTER_a>>,
      <<LETTER_a>> \o <<SPACE, DIGIT_1>>,
      <<LETTER_a>> \o Fragment1,
      <<LETTER_a>> \o Fragment1 \o <<SPACE, PLUS>>,
      <<LETTER_a>> \o Fragment1 \o <<SPACE, PLUS>> \o Fragment2,
      <<LETTER_a, SEMICOLON>>,
      <<LETTER_a, SEMICOLON>> \o BlockComment,
      <<LETTER_a, SPACE, LEFT_CURLY_BRACKET>> }
LexErrorDocs ==
    { lead \o pre \o u :
         lead \in {<<>>, <<LETTER_a, SEMICOLON, LF>>}, pre \in StatementPrefixes,
         u \in Unterminated }

\* Documents of one statement whose keyword is a keyword of the set, "number", a
\* text of letters, digits and colons, or a longer text with a colon
KeywordBytes == {LETTER_a, DIGIT_1, COLON}
KeywordTexts ==
    STATEMENT_KEYWORDS
    \cup { <<110, 117, 109, 98, 101, 114>>,                                 \* number
           <<LETTER_a, DASH, DIGIT_1, COLON, UNDERSCORE, DOT, LETTER_b>>,    \* a-1:_.b
           <<LETTER_a, COLON, LETTER_b, COLON, LETTER_c>>,                   \* a:b:c
           <<LETTER_a, COLON, DASH, LETTER_b>>,                              \* a:-b
           <<DOUBLE_QUOTE, LETTER_a, DOUBLE_QUOTE>> }                        \* "a"
    \cup (Buffers(KeywordBytes, MaxLen) \ {<<>>})
KeywordDocs ==
    { kw \o rest :
         kw \in KeywordTexts,
         rest \in { <<SEMICOLON>>,
                    <<SPACE, DIGIT_1, SPACE, LEFT_CURLY_BRACKET, LF,
                      RIGHT_CURLY_BRACKET, LF>> } }

\* Documents of one statement with strings and "+" in and out of place
Fragment3 == <<SPACE, SINGLE_QUOTE, LETTER_a, DOUBLE_QUOTE, SINGLE_QUOTE>>     \* 'a"'
ConcatValues ==
    { Fragment1,
      Fragment1 \o <<SPACE, PLUS>>,
      Fragment1 \o <<SPACE, PLUS>> \o Fragment2,
      Fragment1 \o <<SPACE, PLUS>> \o Fragment2 \o <<SPACE, PLUS>>,
      Fragment1 \o <<SPACE, PLUS>> \o Fragment2 \o <<SPACE, PLUS, LF>> \o Fragment3,
      Fragment1 \o <<SPACE, PLUS, SPACE, PLUS>> \o Fragment2,
      Fragment1 \o Fragment2,
      Fragment1 \o <<SPACE, PLUS, SPACE, DIGIT_1>>,
      <<SPACE, DIGIT_1, SPACE, PLUS>> \o Fragment2,
      <<SPACE, PLUS>> \o Fragment2,
      <<SPACE, PLUS>>,
      Fragment3,
      <<SPACE, SINGLE_QUOTE, SINGLE_QUOTE>>,                                   \* ''
      <<SPACE, SINGLE_QUOTE, LETTER_b, BACKSLASH, SINGLE_QUOTE, LETTER_a,
        SINGLE_QUOTE>>,                                                        \* 'b\'a'
      <<SPACE, SINGLE_QUOTE, SPACE, DOUBLE_QUOTE, SPACE, SINGLE_QUOTE>>,       \* ' " '
      <<SPACE, DIGIT_1, DIGIT_0, DIGIT_0, DIGIT_0, DASH, DIGIT_0, DIGIT_1, DASH,
        DIGIT_0, DIGIT_1>>,                                                    \* 1000-01-01
      <<LF, LETTER_b, SPACE, LETTER_c>>,                                       \* b c
      <<LF, LETTER_b>>,                                                        \* b
      <<LF, LF, LETTER_b>>,                              \* b after two line breaks
      <<SPACE, LETTER_b, SPACE, PLUS>> \o Fragment2,                            \* b + "c"
      <<SPACE, DIGIT_1, DIGIT_0, DIGIT_0, DIGIT_0, DASH, DIGIT_0, DIGIT_1, DASH,
        DIGIT_0, DIGIT_1, LF, PLUS>> \o Fragment2,                             \* date + "c"
      <<SPACE, DIGIT_1, SPACE, DIGIT_1>>,                                      \* 1 1
      <<SPACE, RIGHT_CURLY_BRACKET>>,                                          \* }
      <<SPACE, DIGIT_1, SPACE, RIGHT_CURLY_BRACKET>>,                          \* 1 }
      Fragment1 \o <<SPACE, PLUS>> \o Fragment2 \o <<SPACE, DIGIT_1>> }        \* 'b' + "c" 1
ConcatDocs ==
    { <<LETTER_a>> \o v \o t.open \o t.close : v \in ConcatValues, t \in Terminators }

\* Documents of a block of two statements with runs of line breaks before, between
\* and after the statements
BlankRuns ==
    { <<LF>>, <<LF, LF>>, <<LF, LF, LF, LF>>, <<LF, SPACE, LF, LF>> }
BlankLineDocs ==
    { lead \o <<LETTER_a, SPACE, LEFT_CURLY_BRACKET>> \o b1 \o <<LETTER_a, SEMICOLON>>
           \o b2 \o <<LETTER_b, SEMICOLON>> \o b3 \o <<RIGHT_CURLY_BRACKET>> \o trail :
         lead \in {<<>>, <<LF, LF, LF>>}, b1 \in BlankRuns, b2 \in BlankRuns,
         b3 \in BlankRuns, trail \in {<<>>, <<LF, LF, LF>>} }

\* Documents of a concatenation of three fragments after keywords of 1, 2, 3 and 6
\* bytes, at the top level and in a block
AlignKeywords ==
    { <<LETTER_a>>, <<LETTER_a, LETTER_b>>, <<LETTER_a, COLON, LETTER_b>>,
      <<109, 111, 100, 117, 108, 101>> }
AlignDocs ==
    { w.open \o kw \o Fragment1 \o <<SPACE, PLUS>> \o Fragment2 \o <<PLUS>> \o Fragment3
             \o <<SEMICOLON, LF>> \o w.close :
         kw \in AlignKeywords,
         w \in { [open |-> <<>>, close |-> <<>>],
                 [open |-> <<LETTER_a, SPACE, LEFT_CURLY_BRACKET, LF>>,
                  close |-> <<RIGHT_CURLY_BRACKET, LF>>] } }

\* Documents of one statement followed by comments, one of them a block comment of
\* two lines, and then by a comment on the next line
MultiLineComment == <<SPACE, SLASH, ASTERISK, LF, ASTERISK, SLASH>>          \* " /*\n*/"
TrailingDocs ==
    { <<LETTER_a>> \o t.open \o c1 \o c2 \o <<LF>> \o c3 \o t.close :
         t \in Terminators,
         c1 \in {<<>>, BlockComment, MultiLineComment},
         c2 \in {<<>>, BlockComment, LineComment, MultiLineComment},
         c3 \in {<<>>, LineCommentNl, <<LETTER_b, SEMICOLON>>} }

\* Documents of a leaf, or of another block, that holds two or three of: statements
\* with and without an entry in the canonical order, a comment, a blank line
OrderItems ==
    { LEAF_CANONICAL_ORDER[3] \o <<SEMICOLON, LF>>,             \* type;
      LEAF_CANONICAL_ORDER[1] \o <<SEMICOLON, LF>>,             \* when;
      <<LETTER_a, SEMICOLON, LF>>,                              \* a;
      <<SLASH, SLASH, LETTER_b, LF>>,                           \* //b
      <<LF>> }
OrderDocs ==
    { kw \o <<SPACE, LEFT_CURLY_BRACKET, LF>> \o i1 \o i2 \o i3
         \o <<RIGHT_CURLY_BRACKET, LF>> :
         kw \in {LEAF, <<LETTER_a>>}, i1 \in OrderItems, i2 \in OrderItems,
         i3 \in OrderItems \cup {<<>>} }

\* Statement lists for the functions of canonical_order: the lists parse returns for
\* up to MaxItems - 1 of: two statements of one rank, a statement of a lower rank, two
\* statements without a rank, a comment, a line break (two in a row are an empty line)
SortItems ==
    { LEAF_CANONICAL_ORDER[3] \o <<SPACE, LETTER_a, SEMICOLON, LF>>,   \* type a;
      LEAF_CANONICAL_ORDER[3] \o <<SPACE, LETTER_b, SEMICOLON, LF>>,   \* type b;
      LEAF_CANONICAL_ORDER[1] \o <<SEMICOLON, LF>>,                    \* when;
      <<LETTER_a, SEMICOLON, LF>>,                                     \* a;
      <<LETTER_b, SEMICOLON, LF>>,                                     \* b;
      <<SLASH, SLASH, LETTER_c, LF>>,                                  \* //c
      <<LF>> }
SortLists == { Unwrap(parse(Flatten(s)).root) : s \in Buffers(SortItems, MaxItems - 1) }

\* Documents for the column arithmetic of the printer: values of every kind, a string
\* of two lines, at depths 0 to 2, under the least and the greatest indent width and
\* max width of Args and the defaults
WidthValues ==
    { <<LETTER_b>>, <<DIGIT_1>>, <<DOUBLE_QUOTE, LETTER_b, DOUBLE_QUOTE>>,
      <<DOUBLE_QUOTE, LETTER_b, LF, LETTER_c, DOUBLE_QUOTE>>,
      <<DOUBLE_QUOTE, LETTER_b, DOUBLE_QUOTE, PLUS, DOUBLE_QUOTE, LETTER_c, DOUBLE_QUOTE>> }
WidthBlocks ==
    { <<<<>>, <<>>>>,
      <<<<LETTER_a, LEFT_CURLY_BRACKET>>, <<RIGHT_CURLY_BRACKET>>>>,
      <<<<LETTER_a, LEFT_CURLY_BRACKET, LETTER_b, LEFT_CURLY_BRACKET>>,
        <<RIGHT_CURLY_BRACKET, RIGHT_CURLY_BRACKET>>>> }
WidthDocs ==
    { b[1] \o <<LETTER_a, SPACE>> \o v \o <<SEMICOLON>> \o b[2] :
        v \in WidthValues, b \in WidthBlocks }
WidthConfigs ==
    { [indent_width |-> w, line_length |-> l, fix_canonical_order |-> FALSE] :
        w \in {0, 2, U8 - 1}, l \in {0, 79, U16 - 1} }

\* Documents of one statement with a quoted value of up to MaxContent bytes out of a
\* space, a vertical tab and a letter, and of a concatenation with such fragments
MaxContent == 3
StripBytes == <<SPACE, VERTICAL_TAB, LETTER_b>>
StripContents ==
    UNION { [1..n -> {StripBytes[k] : k \in 1..Len(StripBytes)}] : n \in 0..MaxContent }
StripDocs ==
    { <<LETTER_a, SPACE, DOUBLE_QUOTE>> \o content \o <<DOUBLE_QUOTE, SEMICOLON, LF>> :
         content \in StripContents }
    \cup
    { <<LETTER_a, SPACE, q>> \o content \o <<q, SPACE, PLUS, SPACE, DOUBLE_QUOTE>>
          \o content \o <<DOUBLE_QUOTE, SEMICOLON, LF>> :
         q \in {SINGLE_QUOTE}, content \in {c \in StripContents : Len(c) <= 2} }

\* Buffers of a quote followed by up to MaxContent bytes out of the quotes, the
\* backslash, the bytes that end other tokens, the bytes of the comment openers and a
\* line feed
StringBytes ==
    {LETTER_a, DOUBLE_QUOTE, SINGLE_QUOTE, BACKSLASH, SEMICOLON, LEFT_CURLY_BRACKET,
     RIGHT_CURLY_BRACKET, PLUS, SLASH, ASTERISK, LF}
StringBuffers ==
    { <<q>> \o rest : q \in {DOUBLE_QUOTE, SINGLE_QUOTE},
                      rest \in Buffers(StringBytes, MaxContent + 1) }

\* Buffers of up to MaxItems - 1 pieces out of a letter, a digit, a quote, a date and
\* the bytes the claim calls delimiters
OtherChunks ==
    { <<LETTER_a>>, <<DIGIT_1>>, <<DOUBLE_QUOTE>>,
      <<DIGIT_1, DIGIT_0, DIGIT_0, DIGIT_0, DASH, DIGIT_0, DIGIT_1, DASH, DIGIT_0, DIGIT_1>>,
      <<SPACE>>, <<TAB>>, <<CR>>, <<LF>>, <<SEMICOLON>>, <<LEFT_CURLY_BRACKET>>,
      <<RIGHT_CURLY_BRACKET>> }
OtherBuffers == {Flatten(s) : s \in Buffers(OtherChunks, MaxItems - 1)}

\* Documents of one statement with a quoted value of two to four lines, one of them
\* empty, at the top level and in a block
MultiLineValues ==
    { <<LETTER_b, LF, LETTER_c>>,                                 \* b / c
      <<LETTER_b, LF, LF, SPACE, SPACE, LETTER_c, LF, SPACE, LETTER_a>>,   \* b / / c / a
      <<LETTER_b, LETTER_b, LETTER_b, LETTER_b, LETTER_b, LF, SPACE, LF, LETTER_c>> }
MultiLineDocs ==
    { w.open \o <<LETTER_a, SPACE, DOUBLE_QUOTE>> \o v \o <<DOUBLE_QUOTE, SEMICOLON, LF>>
             \o w.close :
         v \in MultiLineValues,
         w \in { [open |-> <<>>, close |-> <<>>],
                 [open |-> <<LETTER_a, SPACE, LEFT_CURLY_BRACKET, LF>>,
                  close |-> <<RIGHT_CURLY_BRACKET, LF>>] } }

Inputs ==
    StructDocs \cup StatementDocs \cup LexErrorDocs \cup KeywordDocs \cup ConcatDocs
    \cup BlankLineDocs \cup AlignDocs \cup TrailingDocs \cup OrderDocs \cup StripDocs
    \cup MultiLineDocs

\* Token streams given to parse_statement itself: the empty stream, streams that end
\* after the keyword, the value, a fragment or a "+", with or without white space, a
\* line break or a comment at the end, and streams of whole statements
EndOfInputDocs ==
    { pre \o trail :
         pre \in { <<>>,
                   <<LETTER_a>>,
                   <<LETTER_a>> \o <<SPACE, DIGIT_1>>,
                   <<LETTER_a>> \o Fragment1,
                   <<LETTER_a>> \o Fragment1 \o <<SPACE, PLUS>>,
                   <<LETTER_a>> \o Fragment1 \o <<SPACE, PLUS>> \o Fragment2 },
         trail \in { <<>>, <<SPACE>>, <<LF>>, BlockComment, LineCommentNl, <<SPACE, LF>> } }
StatementInputs == EndOfInputDocs \cup ConcatDocs \cup TrailingDocs

\* Documents of a block in a block with quoted strings, comments before the value and
\* the "{", and runs of line breaks around the statements
ProcessRuns == { <<LF>>, <<LF, LF, LF, LF>> }
ProcessDocs ==
    { lead \o <<LETTER_a, SPACE, LEFT_CURLY_BRACKET>> \o b1
           \o <<LETTER_b>> \o BlockComment \o Fragment1 \o <<SEMICOLON>> \o b2
           \o <<LETTER_c>> \o BlockComment \o <<LEFT_CURLY_BRACKET>> \o b3
           \o inner \o <<RIGHT_CURLY_BRACKET>> \o b1 \o <<RIGHT_CURLY_BRACKET, LF>> :
         lead \in {<<>>, <<LF, LF>>}, b1 \in ProcessRuns, b2 \in ProcessRuns,
         b3 \in ProcessRuns,
         inner \in {<<>>, <<LETTER_a>> \o Fragment3 \o <<SEMICOLON, LF, LF>>} }

\* The files of the command line.  Those given to the single-crate main hold no
\* statement: comments, line breaks, whitespace, a ";", a "}" and an unterminated
\* comment
LegacyChunks ==
    { <<SLASH, ASTERISK, LETTER_c, ASTERISK, SLASH>>,    \* "/*c*/"
      <<SLASH, SLASH, LETTER_b, LF>>,                    \* "//b"
      <<LF>>,
      <<SPACE>>,
      <<SEMICOLON>>,
      <<RIGHT_CURLY_BRACKET>>,
      <<SLASH, ASTERISK>> }                              \* "/*"
LegacyFiles ==
    { f \in {Flatten(c) : c \in Buffers(LegacyChunks, MaxItems - 1)} :
         legacy_parse(f).status # "keyword" }
CliFiles == LegacyFiles \cup ConcatDocs \cup TrailingDocs \cup LexErrorDocs

Configs ==
    { [indent_width |-> 2, line_length |-> 79, fix_canonical_order |-> FALSE],
      [indent_width |-> 1, line_length |-> 6, fix_canonical_order |-> TRUE] }

(***************************************************************************)
(* State                                                                   *)
(***************************************************************************)
VARIABLES
    buffer,     \* the input bytes
    cursor,     \* ScanIterator.cursor
    tokens,     \* the tokens the iterator has yielded
    lex_state,  \* "scanning", "eof" or "error" (next_token returned Err)
    lex_error,  \* the error of next_token
    parser,     \* the locals of parse(): see ParseStart
    last_call,  \* the last call of parse_statement: offset before, and what it returned
    config,     \* FormatConfig
    fmt,        \* the locals of format_yang: tree, the sink, the next node to write
    run,        \* 1: formatting the input; 2: formatting the output of run 1
    cli         \* the process of main: its arguments, the file on disk, where it is

vars == <<buffer, cursor, tokens, lex_state, lex_error, parser, last_call, config, fmt, run,
          cli>>

lexvars == <<cursor, tokens, lex_state, lex_error>>
parsevars == <<parser, last_call>>
fmtvars == <<config, fmt, run>>

\* parsed keeps the tree as parse returned it; first keeps the input and that tree of
\* the first run when the output is formatted again
FmtStart ==
    [state |-> "start", tree |-> <<>>, next |-> 1, out |-> <<>>, error |-> None,
     parsed |-> <<>>, first |-> None]
DefaultConfig == [indent_width |-> 2, line_length |-> 79, fix_canonical_order |-> FALSE]

IdleLex == cursor = 0 /\ tokens = <<>> /\ lex_state = "scanning" /\ lex_error = None
IdleParse == parser = ParseStart /\ last_call = None
IdleFmt == config = DefaultConfig /\ fmt = FmtStart /\ run = 1

\* main before it has started: entry names the main.rs that runs, file is the content
\* of the file at file_path, before is that content when main started, opened tells
\* whether the file has been opened for writing or written, result is what
\* format_yang returned
CliStart ==
    [entry |-> "none", in_place |-> FALSE, phase |-> "start", file |-> <<>>,
     before |-> <<>>, output_buffer |-> <<>>, stdout |-> <<>>, opened |-> FALSE,
     result |-> "none"]
IdleCli == cli = CliStart

(***************************************************************************)
(* The lexer alone: scan(buffer) iterated to the end                       *)
(***************************************************************************)
InitLex == buffer \in Buffers(LexBytes, MaxLen) /\ IdleLex /\ IdleParse /\ IdleFmt /\ IdleCli

\* ScanIterator::next, one action per outcome of next_token
ScanToken ==
    /\ lex_state = "scanning"
    /\ LET r == next_token(buffer, cursor) IN
        /\ r.ok /\ IsSome(r.v)
        /\ cursor' = Unwrap(r.v)[1]
        /\ tokens' = Append(tokens, Unwrap(r.v)[2])
    /\ UNCHANGED <<cli, buffer, lex_state, lex_error, parsevars, fmtvars>>

ScanEnd ==
    /\ lex_state = "scanning"
    /\ LET r == next_token(buffer, cursor) IN r.ok /\ ~IsSome(r.v)
    /\ lex_state' = "eof"
    /\ UNCHANGED <<cli, buffer, cursor, tokens, lex_error, parsevars, fmtvars>>

ScanError ==
    /\ lex_state = "scanning"
    /\ LET r == next_token(buffer, cursor) IN
        /\ ~r.ok
        /\ lex_error' = Some(r.e)
    /\ lex_state' = "error"
    /\ UNCHANGED <<cli, buffer, cursor, tokens, parsevars, fmtvars>>

NextLex == ScanToken \/ ScanEnd \/ ScanError

SpecLex == InitLex /\ [][NextLex]_vars

\* the lexer on buffers of undelimited runs and delimiters
InitOther == buffer \in OtherBuffers /\ IdleLex /\ IdleParse /\ IdleFmt /\ IdleCli

SpecOther == InitOther /\ [][NextLex]_vars

\* the lexer on buffers that begin with a quote
InitString == buffer \in StringBuffers /\ IdleLex /\ IdleParse /\ IdleFmt /\ IdleCli

SpecString == InitString /\ [][NextLex]_vars

(***************************************************************************)
(* The parser: parse(buffer), one action per arm of its loop               *)
(***************************************************************************)
InitParse == buffer \in Inputs /\ IdleLex /\ IdleParse /\ IdleFmt /\ IdleCli

\* token_stream.peek()
Peek == scan_iter_next(buffer, parser.pos)
PeekIs(types) ==
    /\ parser.status = "running"
    /\ Peek.ok /\ IsSome(Peek.v)
    /\ Unwrap(Peek.v)[2].token_type \in types

Iterate ==
    /\ parser' = parse_iteration(buffer, parser)
    /\ UNCHANGED <<cli, buffer, lexvars, fmtvars>>

ParseWhiteSpace == PeekIs({"WhiteSpace"}) /\ Iterate /\ UNCHANGED last_call
ParseLineBreak == PeekIs({"LineBreak"}) /\ Iterate /\ UNCHANGED last_call
ParseComment == PeekIs({"Comment"}) /\ Iterate /\ UNCHANGED last_call
ParseClosingBrace == PeekIs({"ClosingCurlyBrace"}) /\ Iterate /\ UNCHANGED last_call
ParseStatement ==
    /\ PeekIs({"String", "Date", "Number", "Plus", "SemiColon", "OpenCurlyBrace", "Other"})
    /\ Iterate
    /\ last_call' = Some([start |-> parser.pos, ret |-> parse_statement(buffer, parser.pos)])
ParseLexError ==
    /\ parser.status = "running" /\ ~Peek.ok
    /\ Iterate /\ UNCHANGED last_call
ParseEnd ==
    /\ parser.status = "running" /\ Peek.ok /\ ~IsSome(Peek.v)
    /\ Iterate /\ UNCHANGED last_call

NextParse ==
    \/ ParseWhiteSpace \/ ParseLineBreak \/ ParseComment \/ ParseClosingBrace
    \/ ParseStatement \/ ParseLexError \/ ParseEnd

SpecParse == InitParse /\ [][NextParse]_vars

\* parse runs on: while the loop has not returned, iterations keep being taken. This
\* is weak fairness of NextParse, written out with the state of the loop in the place
\* of ENABLED: an iteration can be taken exactly while the status is "running"
ParseRunsOn == []<>(parser.status # "running") \/ []<><<NextParse>>_vars

SpecParseLive == SpecParse /\ ParseRunsOn

(***************************************************************************)
(* The formatter: format_yang(out, buffer, config), then once more on its  *)
(* own output                                                              *)
(***************************************************************************)
InitFmt ==
    /\ buffer \in Inputs /\ IdleLex /\ IdleParse
    /\ config \in Configs /\ fmt = FmtStart /\ run = 1
    /\ IdleCli

\* parse(buffer)? with the nodes parsed before the error kept and formatted
parse_result_recover(f, tree) ==
    IF tree.status = "ok"
    THEN [f EXCEPT !.state = "parsed", !.tree = Unwrap(tree.root),
                   !.parsed = Unwrap(tree.root)]
    ELSE [f EXCEPT !.state = "parsed",
                   !.tree = IF tree.node_stack = <<>> THEN <<>> ELSE tree.node_stack[1],
                   !.error = tree.error]

\* the "?" of parse(buffer)?: the tree, or the return of the error
parse_result(f, tree) ==
    IF tree.status = "ok"
    THEN [f EXCEPT !.state = "parsed", !.tree = Unwrap(tree.root),
                   !.parsed = Unwrap(tree.root)]
    ELSE [f EXCEPT !.state = "failed",
                   !.error = IF tree.status = "err" THEN tree.error
                             ELSE Some([message |-> "panic", position |-> tree.pos])]

\* let mut tree = parse(buffer)?;
format_yang_parse(buf, f) == parse_result(f, parse(buf))

FormatParse ==
    /\ fmt.state = "start"
    /\ fmt' = format_yang_parse(buffer, fmt)
    /\ UNCHANGED <<cli, buffer, lexvars, parsevars, config, run>>

\* process_statements(None, &mut tree.children, config);
FormatProcess ==
    /\ fmt.state = "parsed"
    /\ fmt' = [fmt EXCEPT !.state = "writing",
                          !.tree = process_statements(None, fmt.tree, config)]
    /\ UNCHANGED <<cli, buffer, lexvars, parsevars, config, run>>

\* one iteration of "for node in tree.children { write_node(out, &node, config, 0)?; }"
FormatWrite ==
    /\ fmt.state = "writing" /\ fmt.next <= Len(fmt.tree)
    /\ fmt' = [fmt EXCEPT !.out = @ \o write_node(fmt.tree[fmt.next], config, 0),
                          !.next = @ + 1]
    /\ UNCHANGED <<cli, buffer, lexvars, parsevars, config, run>>

\* Ok(())
FormatReturn ==
    /\ fmt.state = "writing" /\ fmt.next > Len(fmt.tree)
    /\ fmt' = [fmt EXCEPT !.state = "done"]
    /\ UNCHANGED <<cli, buffer, lexvars, parsevars, config, run>>

\* the formatted text is given to the formatter again, with the same config
Reformat ==
    /\ fmt.state = "done" /\ run = 1
    /\ buffer' = fmt.out
    /\ fmt' = [FmtStart EXCEPT !.first = Some([input |-> buffer, parsed |-> fmt.parsed])]
    /\ run' = 2
    /\ UNCHANGED <<cli, lexvars, parsevars, config>>

NextFmt == FormatParse \/ FormatProcess \/ FormatWrite \/ FormatReturn \/ Reformat

SpecFmt == InitFmt /\ [][NextFmt]_vars

(***************************************************************************)
(* parse_statement called on a token stream of its own, as its tests do    *)
(***************************************************************************)
InitStatement == buffer \in StatementInputs /\ IdleLex /\ IdleParse /\ IdleFmt /\ IdleCli

\* parse_statement(&mut scan_iter(buffer).peekable())
CallParseStatement ==
    /\ last_call = None
    /\ last_call' = Some([start |-> 0, ret |-> parse_statement(buffer, 0)])
    /\ UNCHANGED <<buffer, lexvars, parser, fmtvars, cli>>

NextStatement == CallParseStatement

SpecStatement == InitStatement /\ [][NextStatement]_vars

(***************************************************************************)
(* process_statements step by step: one action per statement of its body,  *)
(* with the stack of its calls                                             *)
(***************************************************************************)
\* the sibling list that path leads to: path[1] is the index of a block among nodes,
\* path[2] the index of a block among its children, and so on
RECURSIVE ListAt(_, _)
ListAt(nodes, path) ==
    IF path = <<>> THEN nodes
    ELSE ListAt(Unwrap(nodes[path[1]].children), Tail(path))

RECURSIVE WithListAt(_, _, _)
WithListAt(nodes, path, list) ==
    IF path = <<>> THEN list
    ELSE [nodes EXCEPT ![path[1]] =
            [nodes[path[1]] EXCEPT !.children =
                Some(WithListAt(Unwrap(nodes[path[1]].children), Tail(path), list))]]

HasChildren(node) == node.node = "Statement" /\ IsSome(node.children)

\* the statement of process_statements that runs after the given one; "for" stands
\* for the end of the loop over the nodes
list_pass_after_relocate_first(pass) ==
    CASE pass = "for" -> "relocate_pre_block_comments"
      [] pass = "relocate_pre_block_comments" -> "trim_line_breaks"
      [] pass = "trim_line_breaks" -> "squash_line_breaks"
      [] pass = "squash_line_breaks" -> "sort_statements"

\* the statement of process_statements that runs after the given one; "for" stands
\* for the end of the loop over the nodes
list_pass_after(pass) ==
    CASE pass = "for" -> "trim_line_breaks"
      [] pass = "trim_line_breaks" -> "squash_line_breaks"
      [] pass = "squash_line_breaks" -> "relocate_pre_block_comments"
      [] pass = "relocate_pre_block_comments" -> "sort_statements"

\* where a call of process_statements stands with its loop at node i of statements
loop_pc(statements, i) == IF i > Len(statements) THEN list_pass_after("for") ELSE "for"

\* a call of process_statements(parent_node_name, statements, config), statements
\* being the list that path leads to
ProcessFrame(parent_node_name, path, statements) ==
    [parent_node_name |-> parent_node_name, path |-> path, i |-> 1,
     pc |-> loop_pc(statements, 1)]

ProcessStarted(tree) ==
    [state |-> "processing", tree |-> tree, parsed |-> tree,
     stack |-> <<ProcessFrame(None, <<>>, tree)>>, log |-> <<>>]

InitProcess ==
    /\ buffer \in ProcessDocs /\ IdleLex /\ IdleParse /\ IdleCli
    /\ config \in Configs /\ run = 1
    /\ fmt = ProcessStarted(Unwrap(parse(buffer).root))

Frame == fmt.stack[Len(fmt.stack)]
Statements == ListAt(fmt.tree, Frame.path)
AtPass(pc) == fmt.state = "processing" /\ Frame.pc = pc
Logged(pass, i) == Append(fmt.log, [pass |-> pass, path |-> Frame.path, i |-> i])

\* the frame on top of the stack replaced
WithFrame(frame) == [fmt.stack EXCEPT ![Len(fmt.stack)] = frame]

\* if let Some(ref mut children) = statement.children { process_statements(...) }
ProcessRecurse ==
    /\ AtPass("for") /\ HasChildren(Statements[Frame.i])
    /\ fmt' = [fmt EXCEPT
                 !.stack = Append(WithFrame([Frame EXCEPT !.pc = "convert_to_double_quotes"]),
                                  ProcessFrame(Some(KeywordText(Statements[Frame.i].keyword)),
                                               Append(Frame.path, Frame.i),
                                               Unwrap(Statements[Frame.i].children)))]
    /\ UNCHANGED <<cli, buffer, lexvars, parsevars, config, run>>

\* one pass over node i of the list of the running call
NodePass(list, node, pass, pc) ==
    fmt' = [fmt EXCEPT !.tree = WithListAt(@, Frame.path, [list EXCEPT ![Frame.i] = node]),
                       !.stack = WithFrame([Frame EXCEPT !.pc = pc]),
                       !.log = Logged(pass, Frame.i)]

\* convert_to_double_quotes(node);
ProcessConvert ==
    /\ \/ AtPass("convert_to_double_quotes")
       \/ AtPass("for") /\ ~HasChildren(Statements[Frame.i])
    /\ NodePass(Statements, convert_to_double_quotes(Statements[Frame.i]),
                "convert_to_double_quotes", "strip_string")
    /\ UNCHANGED <<cli, buffer, lexvars, parsevars, config, run>>

\* strip_string(node);
ProcessStrip ==
    /\ AtPass("strip_string")
    /\ NodePass(Statements, strip_string(Statements[Frame.i]), "strip_string",
                "dedent_multilined_string")
    /\ UNCHANGED <<cli, buffer, lexvars, parsevars, config, run>>

\* dedent_multilined_string(node); and the step of the loop to the next node
ProcessDedent ==
    /\ AtPass("dedent_multilined_string")
    /\ fmt' = [fmt EXCEPT
                 !.tree = WithListAt(@, Frame.path,
                             [Statements EXCEPT ![Frame.i] = dedent_multilined_string(@)]),
                 !.stack = WithFrame([Frame EXCEPT !.i = @ + 1,
                                                   !.pc = loop_pc(Statements, Frame.i + 1)]),
                 !.log = Logged("dedent_multilined_string", Frame.i)]
    /\ UNCHANGED <<cli, buffer, lexvars, parsevars, config, run>>

\* one pass over the list of the running call
ListPass(list, pass, pc) ==
    fmt' = [fmt EXCEPT !.tree = WithListAt(@, Frame.path, list),
                       !.stack = WithFrame([Frame EXCEPT !.pc = pc]),
                       !.log = Logged(pass, 0)]

\* trim_line_breaks(statements);
ProcessTrim ==
    /\ AtPass("trim_line_breaks")
    /\ ListPass(trim_line_breaks(Statements), "trim_line_breaks",
                list_pass_after("trim_line_breaks"))
    /\ UNCHANGED <<cli, buffer, lexvars, parsevars, config, run>>

\* squash_line_breaks(statements);
ProcessSquash ==
    /\ AtPass("squash_line_breaks")
    /\ ListPass(squash_line_breaks(Statements), "squash_line_breaks",
                list_pass_after("squash_line_breaks"))
    /\ UNCHANGED <<cli, buffer, lexvars, parsevars, config, run>>

\* relocate_pre_block_comments(statements);
ProcessRelocate ==
    /\ AtPass("relocate_pre_block_comments")
    /\ ListPass(relocate_pre_block_comments(Statements), "relocate_pre_block_comments",
                list_pass_after("relocate_pre_block_comments"))
    /\ UNCHANGED <<cli, buffer, lexvars, parsevars, config, run>>

\* if config.fix_canonical_order { sort_statements(parent_node_name, statements); }
ProcessSort ==
    /\ AtPass("sort_statements")
    /\ IF config.fix_canonical_order
       THEN ListPass(sort_statements(Frame.parent_node_name, Statements),
                     "sort_statements", "return")
       ELSE fmt' = [fmt EXCEPT !.stack = WithFrame([Frame EXCEPT !.pc = "return"])]
    /\ UNCHANGED <<cli, buffer, lexvars, parsevars, config, run>>

\* the return of process_statements to its caller
ProcessReturn ==
    /\ AtPass("return")
    /\ fmt' = [fmt EXCEPT !.stack = SubSeq(@, 1, Len(@) - 1),
                          !.state = IF Len(fmt.stack) = 1 THEN "processed" ELSE @,
                          !.log = Logged("return", 0)]
    /\ UNCHANGED <<cli, buffer, lexvars, parsevars, config, run>>

NextProcess ==
    \/ ProcessRecurse \/ ProcessConvert \/ ProcessStrip \/ ProcessDedent
    \/ ProcessTrim \/ ProcessSquash \/ ProcessRelocate \/ ProcessSort \/ ProcessReturn

SpecProcess == InitProcess /\ [][NextProcess]_vars

(***************************************************************************)
(* The formatter under the configurations Args admits, in a build with and *)
(* in a build without overflow checks                                      *)
(***************************************************************************)
InitWidth ==
    /\ buffer \in WidthDocs /\ IdleLex /\ IdleParse
    /\ config \in WidthConfigs /\ fmt = FmtStart /\ run = 1
    /\ IdleCli

\* write_node(out, &node, config, 0) in a build with overflow checks, for a node
\* whose column arithmetic overflows: the thread panics
FormatPanic ==
    /\ fmt.state = "writing" /\ fmt.next <= Len(fmt.tree)
    /\ write_overflows(fmt.tree[fmt.next], config, 0)
    /\ fmt' = [fmt EXCEPT !.state = "panic"]
    /\ UNCHANGED <<cli, buffer, lexvars, parsevars, config, run>>

\* format_yang called once
NextWidth == FormatParse \/ FormatProcess \/ FormatWrite \/ FormatReturn \/ FormatPanic

SpecWidth == InitWidth /\ [][NextWidth]_vars

(***************************************************************************)
(* The functions of canonical_order called on a statement list             *)
(***************************************************************************)
SortStart(statements) ==
    [state |-> "given", statements |-> statements, sorted |-> <<>>,
     panic |-> FALSE, value |-> FALSE]

InitSort ==
    /\ buffer = <<>> /\ IdleLex /\ IdleParse /\ IdleCli
    /\ config = DefaultConfig /\ run = 1
    /\ fmt \in {SortStart(statements) : statements \in SortLists}

\* sort_statements_with(&LEAF_CANONICAL_ORDER, statements)
CallSortStatementsWith ==
    /\ fmt.state = "given"
    /\ fmt' = [fmt EXCEPT !.state = "sorted",
                          !.sorted = sort_statements_with(LEAF_CANONICAL_ORDER,
                                                          fmt.statements)]
    /\ UNCHANGED <<cli, buffer, lexvars, parsevars, config, run>>

\* is_sorted(&LEAF_CANONICAL_ORDER, statements), in either build
CallIsSorted ==
    /\ fmt.state = "given"
    /\ \E overflow_checks \in BOOLEAN :
          LET r == is_sorted(LEAF_CANONICAL_ORDER, fmt.statements, overflow_checks)
          IN  fmt' = [fmt EXCEPT !.state = "is_sorted",
                                 !.panic = r.panic,
                                 !.value = r.value]
    /\ UNCHANGED <<cli, buffer, lexvars, parsevars, config, run>>

NextSort == CallSortStatementsWith \/ CallIsSorted

SpecSort == InitSort /\ [][NextSort]_vars

(***************************************************************************)
(* The command line: main of crates/yangfmt/src/main.rs ("crates") and of  *)
(* src/main.rs ("legacy"), without the --lex and --tree flags              *)
(***************************************************************************)
InitCli ==
    /\ buffer = <<>> /\ IdleLex /\ IdleParse /\ fmt = FmtStart /\ run = 1
    /\ \E entry \in {"crates", "legacy"}, in_place \in BOOLEAN :
          \E file \in IF entry = "crates" THEN CliFiles ELSE LegacyFiles :
             cli = [CliStart EXCEPT !.entry = entry, !.in_place = in_place,
                                    !.file = file, !.before = file]
    /\ config \in IF cli.entry = "crates" THEN Configs ELSE {DefaultConfig}

\* what main does with the result r of format_yang: exit_with_error on Err, the abort
\* of a panic, or going on
after_format(c, r) ==
    [c EXCEPT !.result = r.status,
              !.phase = IF r.status = "ok" THEN "formatted"
                        ELSE IF r.status = "err" THEN "exited" ELSE "aborted"]

\* read_file(&mut buffer, file_path)
CliReadFile ==
    /\ cli.phase = "start"
    /\ buffer' = cli.file
    /\ cli' = [cli EXCEPT !.phase = "read"]
    /\ UNCHANGED <<lexvars, parsevars, fmtvars>>

\* crates, in_place: format_yang(&mut output_buffer, &buffer, &config)
cli_format_to_buffer(c, r) ==
    [after_format(c, r) EXCEPT !.output_buffer = r.out]

CliFormatToBuffer ==
    /\ cli.phase = "read" /\ cli.entry = "crates" /\ cli.in_place
    /\ cli' = cli_format_to_buffer(cli, format_yang(buffer, config))
    /\ UNCHANGED <<buffer, lexvars, parsevars, fmtvars>>

\* crates, in_place: std::fs::write(file_path, output_buffer)
CliWriteFile ==
    /\ cli.phase = "formatted" /\ cli.entry = "crates" /\ cli.in_place
    /\ cli' = [cli EXCEPT !.file = cli.output_buffer, !.opened = TRUE, !.phase = "done"]
    /\ UNCHANGED <<buffer, lexvars, parsevars, fmtvars>>

\* legacy, in_place: std::fs::File::create(file_path), which truncates the file
CliCreateFile ==
    /\ cli.phase = "read" /\ cli.entry = "legacy" /\ cli.in_place
    /\ cli' = [cli EXCEPT !.file = <<>>, !.opened = TRUE, !.phase = "created"]
    /\ UNCHANGED <<buffer, lexvars, parsevars, fmtvars>>

\* legacy, in_place: format_yang(&mut out, &buffer, &config) with out the file
cli_format_to_file(c, r) ==
    [after_format(c, r) EXCEPT !.file = r.out,
                               !.phase = IF r.status = "ok" THEN "done" ELSE @]

CliFormatToFile ==
    /\ cli.phase = "created"
    /\ cli' = cli_format_to_file(cli, legacy_format_yang(buffer))
    /\ UNCHANGED <<buffer, lexvars, parsevars, fmtvars>>

\* not in_place: format_yang(&mut stdout, &buffer, &config)
cli_format_to_stdout(c, r) ==
    [after_format(c, r) EXCEPT !.stdout = r.out,
                               !.phase = IF r.status = "ok" THEN "done" ELSE @]

CliFormatToStdout ==
    /\ cli.phase = "read" /\ ~cli.in_place
    /\ cli' = cli_format_to_stdout(cli, IF cli.entry = "crates"
                                        THEN format_yang(buffer, config)
                                        ELSE legacy_format_yang(buffer))
    /\ UNCHANGED <<buffer, lexvars, parsevars, fmtvars>>

NextCli ==
    \/ CliReadFile \/ CliFormatToBuffer \/ CliWriteFile \/ CliCreateFile
    \/ CliFormatToFile \/ CliFormatToStdout

SpecCli == InitCli /\ [][NextCli]_vars

(***************************************************************************)
(* Properties of the lexer, checked under SpecLex                          *)
(***************************************************************************)

\* the bytes of the buffer at the 0-based inclusive span sp
SpanBytes(sp) == SubSeq(buffer, sp[1] + 1, sp[2] + 1)

\* C8 (lexer coverage): when scanning has ended without an error, every token is
\* non-empty, the first token starts at offset 0, each later token starts right after
\* the inclusive end of the one before, the last token ends at len - 1, and the text
\* of each token is the bytes of its span; nothing of the buffer is skipped.
C8_LexerCoverage ==
    lex_state = "eof" =>
        /\ Len(buffer) > 0 => tokens # <<>>
        /\ tokens # <<>> =>
              /\ tokens[1].span[1] = 0
              /\ tokens[Len(tokens)].span[2] = Len(buffer) - 1
        /\ \A k \in 1..Len(tokens) :
              /\ tokens[k].span[2] >= tokens[k].span[1]
              /\ Len(tokens[k].text) >= 1
              /\ tokens[k].text = SpanBytes(tokens[k].span)
              /\ k > 1 => tokens[k].span[1] = tokens[k - 1].span[2] + 1

\* a scan that ended without an error and yielded whitespace, a line break and a
\* third token
C8_Witness ==
    /\ lex_state = "eof"
    /\ Len(tokens) >= 3
    /\ \E k \in 1..Len(tokens) : tokens[k].token_type = "WhiteSpace"
    /\ \E k \in 1..Len(tokens) : tokens[k].token_type = "LineBreak"

\* C9 (line-break tokens): a token that starts where the buffer holds "\n" is a
\* LineBreak of length 1, and a token that starts where the buffer holds "\r\n" is a
\* single LineBreak of length 2 covering both bytes.
C9_LineBreakTokens ==
    \A k \in 1..Len(tokens) :
        LET at == tokens[k].span[1] IN
        /\ GetIs(buffer, at, LF) =>
              tokens[k].token_type = "LineBreak" /\ tokens[k].span = <<at, at>>
        /\ GetIs(buffer, at, CR) /\ GetIs(buffer, at + 1, LF) =>
              tokens[k].token_type = "LineBreak" /\ tokens[k].span = <<at, at + 1>>

\* a quote at offset c with no later matching quote that has no backslash before it
UnterminatedStringAt(c) ==
    /\ c < Len(buffer)
    /\ buffer[c + 1] \in {DOUBLE_QUOTE, SINGLE_QUOTE}
    /\ ~\E j \in c + 1..Len(buffer) - 1 :
           buffer[j + 1] = buffer[c + 1] /\ buffer[j] # BACKSLASH

\* "/*" at offset c with no later "*/"
UnterminatedCommentAt(c) ==
    /\ GetIs(buffer, c, SLASH) /\ GetIs(buffer, c + 1, ASTERISK)
    /\ ~\E j \in c + 2..Len(buffer) - 1 :
           GetIs(buffer, j, ASTERISK) /\ GetIs(buffer, j + 1, SLASH)

\* the error e names offset c: c is the one offset whose line and column e carries
ErrorNames(e, c) ==
    \A i \in 0..Len(buffer) : from_buffer_index(buffer, i) = e.at <=> i = c

\* C10 (unterminated constructs fail): when the scan stands at a quote that no later
\* unescaped matching quote closes, its next step reports UnterminatedString with the
\* position of that quote, and at a "/*" that no later "*/" closes it reports
\* UnterminatedComment with the position of the "/*"; that step yields no token.
C10_UnterminatedFails ==
    [][/\ (lex_state = "scanning" /\ UnterminatedStringAt(cursor)) =>
            /\ lex_state' = "error" /\ tokens' = tokens
            /\ IsSome(lex_error')
            /\ Unwrap(lex_error').kind = "UnterminatedString"
            /\ ErrorNames(Unwrap(lex_error'), cursor)
       /\ (lex_state = "scanning" /\ UnterminatedCommentAt(cursor)) =>
            /\ lex_state' = "error" /\ tokens' = tokens
            /\ IsSome(lex_error')
            /\ Unwrap(lex_error').kind = "UnterminatedComment"
            /\ ErrorNames(Unwrap(lex_error'), cursor)]_vars

\* a scan that yielded tokens and then failed at a quote that has a backslash-escaped
\* matching quote after it
C10_Witness ==
    /\ lex_state = "error"
    /\ tokens # <<>>
    /\ UnterminatedStringAt(cursor)
    /\ Unwrap(lex_error).kind = "UnterminatedString"
    /\ \E j \in cursor + 1..Len(buffer) - 1 :
           buffer[j + 1] = buffer[cursor + 1] /\ buffer[j] = BACKSLASH

\* the offset of the first byte after offset c that equals the byte at c and has no
\* backslash right before it
ClosingQuotes(c) ==
    { j \in c + 1..Len(buffer) - 1 : buffer[j + 1] = buffer[c + 1] /\ buffer[j] # BACKSLASH }
FirstClosingQuote(c) == CHOOSE j \in ClosingQuotes(c) : \A i \in ClosingQuotes(c) : j <= i

AtQuote(c) == c < Len(buffer) /\ buffer[c + 1] \in {DOUBLE_QUOTE, SINGLE_QUOTE}

\* C34 (string scanning rule): when the scan stands at a '"' or a "'" that a later
\* byte closes, its next step yields a String token from that quote to the first later
\* byte that equals it and has no backslash right before it, whatever lies between
\* (the other quote, ";", "{", "}", "+", "//", "/*", a line feed), by the same rule for
\* both quotes; a String token starts nowhere but at a quote.
C34_StringScanning ==
    [][/\ (lex_state = "scanning" /\ AtQuote(cursor) /\ ClosingQuotes(cursor) # {}) =>
            /\ lex_state' = "scanning"
            /\ tokens' = Append(tokens,
                                [token_type |-> "String",
                                 span |-> <<cursor, FirstClosingQuote(cursor)>>,
                                 text |-> SpanBytes(<<cursor, FirstClosingQuote(cursor)>>)])
            /\ cursor' = FirstClosingQuote(cursor) + 1
       /\ (Len(tokens') > Len(tokens) /\ tokens'[Len(tokens')].token_type = "String") =>
            AtQuote(cursor)]_vars

\* a String token that holds the other quote and its own quote behind a backslash
C34_Witness ==
    \E k \in 1..Len(tokens) :
        /\ tokens[k].token_type = "String"
        /\ \E j \in 2..Len(tokens[k].text) - 1 :
              tokens[k].text[j] = tokens[k].text[1] /\ tokens[k].text[j - 1] = BACKSLASH
        /\ \E j \in 2..Len(tokens[k].text) - 1 :
              tokens[k].text[j] \in {DOUBLE_QUOTE, SINGLE_QUOTE}
              /\ tokens[k].text[j] # tokens[k].text[1]

\* the bytes that end an undelimited token: space, tab, carriage return, line feed,
\* ";", "{" and "}"
Delimiters == {SPACE, TAB, CR, LF, SEMICOLON, LEFT_CURLY_BRACKET, RIGHT_CURLY_BRACKET}

Undelimited(token) == token.token_type \in {"Other", "Number", "Date"}

\* C35 (undelimited tokens stop at every delimiter): no Other, Number or Date token
\* holds a space, a tab, a carriage return, a line feed, ";", "{" or "}", and each
\* such token runs up to the end of the buffer or up to the byte before one of these.
C35_UndelimitedTokens ==
    \A k \in 1..Len(tokens) :
        Undelimited(tokens[k]) =>
            /\ \A j \in 1..Len(tokens[k].text) : tokens[k].text[j] \notin Delimiters
            /\ \/ tokens[k].span[2] + 1 = Len(buffer)
               \/ buffer[tokens[k].span[2] + 2] \in Delimiters

(***************************************************************************)
(* Properties of the parser, checked under SpecParse                       *)
(***************************************************************************)

\* the tokens of buf from offset c up to offset to, as far as they scan
RECURSIVE ScanFrom(_, _, _)
ScanCons(token, rest) == [ok |-> rest.ok, tokens |-> <<token>> \o rest.tokens]

ScanStep(buf, c, to, r) ==
    IF ~r.ok THEN [ok |-> FALSE, tokens |-> <<>>]
    ELSE IF ~IsSome(r.v) \/ c >= to THEN [ok |-> TRUE, tokens |-> <<>>]
    ELSE ScanCons(Unwrap(r.v)[2], ScanFrom(buf, Unwrap(r.v)[1], to))

ScanFrom(buf, c, to) == ScanStep(buf, c, to, next_token(buf, c))

ScanAll(buf) == ScanFrom(buf, 0, Len(buf))

IsTrivia(token) == token.token_type \in {"WhiteSpace", "LineBreak", "Comment"}

\* index of the first "}" token that closes no earlier "{", or 0
RECURSIVE FirstUnmatchedClose(_, _, _)
FirstUnmatchedClose(toks, k, depth) ==
    IF k > Len(toks) THEN 0
    ELSE IF toks[k].token_type = "OpenCurlyBrace"
    THEN FirstUnmatchedClose(toks, k + 1, depth + 1)
    ELSE IF toks[k].token_type = "ClosingCurlyBrace"
    THEN IF depth = 0 THEN k ELSE FirstUnmatchedClose(toks, k + 1, depth - 1)
    ELSE FirstUnmatchedClose(toks, k + 1, depth)

\* number of "{" tokens left open at the end
RECURSIVE OpenAtEnd(_, _, _)
OpenAtEnd(toks, k, depth) ==
    IF k > Len(toks) THEN depth
    ELSE IF toks[k].token_type = "OpenCurlyBrace" THEN OpenAtEnd(toks, k + 1, depth + 1)
    ELSE IF toks[k].token_type = "ClosingCurlyBrace" /\ depth > 0
    THEN OpenAtEnd(toks, k + 1, depth - 1)
    ELSE OpenAtEnd(toks, k + 1, depth)

ParseReturned == parser.status \in {"ok", "err", "panic"}

\* C5 (unbalanced braces are never tolerated): for an input that scans, if some "}"
\* token closes no earlier "{", parse returns the error "Unexpected closing curly
\* brace" at that "}" (or an error at an earlier offset), and if some "{" is never
\* closed parse returns an error; in neither case does it return a tree.
C5_UnbalancedBraces ==
    (ParseReturned /\ ScanAll(buffer).ok) =>
        LET toks == ScanAll(buffer).tokens
            u == FirstUnmatchedClose(toks, 1, 0)
        IN /\ u # 0 =>
                /\ parser.status = "err"
                /\ \/ Unwrap(parser.error) =
                          [message |-> "Unexpected closing curly brace",
                           position |-> toks[u].span[1]]
                   \/ Unwrap(parser.error).position < toks[u].span[1]
           /\ (u = 0 /\ OpenAtEnd(toks, 1, 0) > 0) => parser.status = "err"
\* the token texts a list of nodes stands for, comments and empty lines left out
RECURSIVE RenderNodes(_)
RECURSIVE RenderParts(_)
RenderParts(parts) ==
    IF parts = <<>> THEN <<>>
    ELSE IF Len(parts) = 1 THEN <<parts[1][1]>>
    ELSE <<parts[1][1], <<PLUS>>>> \o RenderParts(Tail(parts))

RenderValue(value) ==
    IF ~IsSome(value) THEN <<>>
    ELSE IF Unwrap(value).kind = "StringConcatenation" THEN RenderParts(Unwrap(value).parts)
    ELSE <<Unwrap(value).text>>

RenderNodes(nodes) ==
    IF nodes = <<>> THEN <<>>
    ELSE (IF nodes[1].node # "Statement" THEN <<>>
          ELSE <<KeywordText(nodes[1].keyword)>> \o RenderValue(nodes[1].value)
               \o (IF IsSome(nodes[1].children)
                   THEN <<<<LEFT_CURLY_BRACKET>>>>
                        \o RenderNodes(Unwrap(nodes[1].children))
                        \o <<<<RIGHT_CURLY_BRACKET>>>>
                   ELSE <<<<SEMICOLON>>>>))
         \o RenderNodes(Tail(nodes))

\* the texts of the tokens that are not whitespace, line breaks or comments
RECURSIVE SolidTexts(_)
SolidTexts(toks) ==
    IF toks = <<>> THEN <<>>
    ELSE (IF IsTrivia(toks[1]) THEN <<>> ELSE <<toks[1].text>>) \o SolidTexts(Tail(toks))

\* C6 (block structure mirrors the braces): in the tree parse returns, a statement has
\* children = Some(list) exactly when "{" ended it, list being the nodes parsed up to
\* the matching "}" in source order, and children = None when ";" ended it: writing
\* every statement as keyword, value, then "{" children "}" or ";" gives back the
\* input's tokens other than whitespace, line breaks and comments.
C6_BlocksMirrorBraces ==
    parser.status = "ok" =>
        RenderNodes(Unwrap(parser.root)) = SolidTexts(ScanAll(buffer).tokens)

\* a returned tree with a block that holds a statement with an empty block
C6_Witness ==
    /\ parser.status = "ok"
    /\ \E j \in 1..Len(Unwrap(parser.root)) :
          LET m == Unwrap(parser.root)[j]
          IN /\ m.node = "Statement"
             /\ IsSome(m.children)
             /\ \E k \in 1..Len(Unwrap(m.children)) :
                   /\ Unwrap(m.children)[k].node = "Statement"
                   /\ Unwrap(m.children)[k].children = Some(<<>>)

\* the texts of the Comment tokens of toks with an index strictly between i and j
RECURSIVE CommentsBetween(_, _, _)
CommentsBetween(toks, i, j) ==
    IF i + 1 >= j THEN <<>>
    ELSE (IF toks[i + 1].token_type = "Comment" THEN <<toks[i + 1].text>> ELSE <<>>)
         \o CommentsBetween(toks, i + 1, j)

\* index of the first token of toks after index i with a type in types, or bound
RECURSIVE FirstAfter(_, _, _, _)
FirstAfter(toks, types, i, bound) ==
    IF i + 1 >= bound THEN bound
    ELSE IF toks[i + 1].token_type \in types THEN i + 1
    ELSE FirstAfter(toks, types, i + 1, bound)

TerminatorTypes == {"SemiColon", "OpenCurlyBrace"}
StringTypes == {"String"}
SolidTypes ==
    {"SemiColon", "OpenCurlyBrace", "ClosingCurlyBrace", "Plus", "String", "Number",
     "Date", "Other"}

\* the comments after each String token of toks before index term, up to the next
\* String token or term
RECURSIVE CommentsPerFragment(_, _, _)
CommentsPerFragment(toks, i, term) ==
    IF i >= term THEN <<>>
    ELSE <<CommentsBetween(toks, i, FirstAfter(toks, StringTypes, i, term))>>
         \o CommentsPerFragment(toks, FirstAfter(toks, StringTypes, i, term), term)

\* where the comments of the tokens toks of one statement belong by their place:
\* before the value (or the terminator), between value and terminator, after the
\* terminator, and per fragment of a concatenation
PartitionByPlace(toks) ==
    LET term == FirstAfter(toks, TerminatorTypes, 1, Len(toks) + 1)
        v == FirstAfter(toks, SolidTypes, 1, term)
        concat == \E k \in v + 1..term - 1 : toks[k].token_type = "Plus"
    IN [keyword_comments |-> CommentsBetween(toks, 1, v),
        value_comments |-> IF concat THEN <<>> ELSE CommentsBetween(toks, v, term),
        fragments |-> IF concat THEN CommentsPerFragment(toks, v, term) ELSE <<>>,
        post_comments |-> CommentsBetween(toks, term, Len(toks) + 1)]

\* the comment lists of a statement
PartitionOf(statement) ==
    [keyword_comments |-> statement.keyword_comments,
     value_comments |-> statement.value_comments,
     fragments |-> IF IsSome(statement.value)
                   THEN [k \in 1..Len(Unwrap(statement.value).parts) |->
                            Unwrap(statement.value).parts[k][2]]
                   ELSE <<>>,
     post_comments |-> statement.post_comments]

\* C7 (comment partition within a statement): for every statement parse_statement
\* returns, each Comment token it consumed is, once and in source order, in the list
\* its place gives: keyword_comments before the value (or before the terminator when
\* there is no value), value_comments between value and terminator, the list of the
\* fragment of a concatenation it follows, post_comments after the terminator.
C7_CommentPartition ==
    (IsSome(last_call) /\ Unwrap(last_call).ret.tag = "ok") =>
        PartitionOf(Unwrap(last_call).ret.statement) =
            PartitionByPlace(ScanFrom(buffer, Unwrap(last_call).start,
                                      Unwrap(last_call).ret.pos).tokens)

\* a concatenation whose first fragment is followed by two comments, with a keyword
\* comment and a post-comment
C7_Witness ==
    /\ IsSome(last_call) /\ Unwrap(last_call).ret.tag = "ok"
    /\ LET st == Unwrap(last_call).ret.statement IN
          /\ st.keyword_comments # <<>>
          /\ st.post_comments # <<>>
          /\ IsSome(st.value)
          /\ Len(Unwrap(st.value).parts) = 2
          /\ Len(Unwrap(st.value).parts[1][2]) = 2

\* the first error the token stream of buf yields from offset c on, if any
RECURSIVE FirstLexError(_, _)
FirstLexErrorStep(buf, r) ==
    IF ~r.ok THEN Some(r.e)
    ELSE IF ~IsSome(r.v) THEN None
    ELSE FirstLexError(buf, Unwrap(r.v)[1])

FirstLexError(buf, c) == FirstLexErrorStep(buf, scan_iter_next(buf, c))

\* the errors the parser raises at a token (the other two are raised at the end of
\* the stream)
TokenErrorMessages ==
    {"Unexpected token", "Unexpected concatenation of non-string value",
     "Unexpected closing curly brace"}

RECURSIVE AllConcatsHaveTwo(_)
AllConcatsHaveTwo(nodes) ==
    \A k \in 1..Len(nodes) :
        nodes[k].node = "Statement" =>
            /\ IsConcatValue(nodes[k]) => Len(Unwrap(nodes[k].value).parts) >= 2
            /\ IsSome(nodes[k].children) => AllConcatsHaveTwo(Unwrap(nodes[k].children))

\* the texts of the tokens of toks of the given type
RECURSIVE TextsOfType(_, _)
TextsOfType(toks, type) ==
    IF toks = <<>> THEN <<>>
    ELSE (IF toks[1].token_type = type THEN <<toks[1].text>> ELSE <<>>)
         \o TextsOfType(Tail(toks), type)

\* the tokens of the statement that the last call of parse_statement returned
LastStatementTokens ==
    ScanFrom(buffer, Unwrap(last_call).start, Unwrap(last_call).ret.pos).tokens

\* C13 (a concatenation has at least two fragments): every StringConcatenation value
\* of a tree that parse returns, and of a statement that parse_statement returns, has
\* at least 2 fragments, which are the statement's String tokens in order; a statement
\* whose value token is a quoted string and that has no "+" token has the value
\* String with the text of that token.
C13_ConcatAtLeastTwo ==
    /\ parser.status = "ok" => AllConcatsHaveTwo(Unwrap(parser.root))
    /\ (IsSome(last_call) /\ Unwrap(last_call).ret.tag = "ok") =>
          LET st == Unwrap(last_call).ret.statement
              toks == LastStatementTokens
              strings == TextsOfType(toks, "String")
              v == FirstAfter(toks, SolidTypes, 1, Len(toks) + 1)
          IN /\ IsConcatValue(st) =>
                   /\ Len(Unwrap(st.value).parts) >= 2
                   /\ [k \in 1..Len(Unwrap(st.value).parts) |->
                          Unwrap(st.value).parts[k][1]] = strings
             /\ (v <= Len(toks) /\ toks[v].token_type = "String"
                 /\ TextsOfType(toks, "Plus") = <<>>) =>
                   st.value = Some([kind |-> "String", text |-> toks[v].text,
                                    parts |-> <<>>])

\* parse_statement has returned a concatenation of three fragments
C13_Witness ==
    /\ IsSome(last_call) /\ Unwrap(last_call).ret.tag = "ok"
    /\ IsConcatValue(Unwrap(last_call).ret.statement)
    /\ Len(Unwrap(Unwrap(last_call).ret.statement.value).parts) = 3
    /\ parser.status = "ok"

\* index in toks of the token that terminates the statement toks starts with
TerminatorIndex(toks) == FirstAfter(toks, TerminatorTypes, 1, Len(toks) + 1)

\* C18 (post-comments are same-line comments): for every statement parse_statement
\* returns, post_comments holds the comments it consumed after the terminating ";" or
\* "{", and no line break, not even one inside an earlier block comment, lies between
\* the terminator and the start of any of them.
C18_PostCommentsSameLine ==
    (IsSome(last_call) /\ Unwrap(last_call).ret.tag = "ok") =>
        LET toks == LastStatementTokens
            term == TerminatorIndex(toks)
        IN /\ Unwrap(last_call).ret.statement.post_comments =
                  CommentsBetween(toks, term, Len(toks) + 1)
           /\ \A j \in term + 1..Len(toks) :
                 toks[j].token_type = "Comment" =>
                     \A p \in toks[term].span[1] + 1..toks[j].span[1] : buffer[p] # LF

\* the texts of the Comment nodes of nodes and of their blocks, in source order
RECURSIVE CommentNodeTexts(_)
CommentNodeTexts(nodes) ==
    IF nodes = <<>> THEN <<>>
    ELSE (IF nodes[1].node = "Comment" THEN <<nodes[1].text>>
          ELSE IF nodes[1].node = "Statement" /\ IsSome(nodes[1].children)
          THEN CommentNodeTexts(Unwrap(nodes[1].children))
          ELSE <<>>)
         \o CommentNodeTexts(Tail(nodes))

\* the texts of the Comment tokens of toks after index term that start on a later
\* line than the token at term
RECURSIVE LaterLineComments(_, _, _)
LaterLineComments(toks, term, j) ==
    IF j > Len(toks) THEN <<>>
    ELSE (IF /\ toks[j].token_type = "Comment"
             /\ \E p \in toks[term].span[1] + 1..toks[j].span[1] : buffer[p] = LF
          THEN <<toks[j].text>> ELSE <<>>)
         \o LaterLineComments(toks, term, j + 1)

\* C19 (parse_statement consumes exactly one statement): when parse_statement
\* succeeds, all it has consumed after the terminator is white space and comments,
\* and the stream stands at the first token that is neither (or at its end), which
\* is left to the caller; every comment that starts on a later line than the
\* terminator is left to the caller too and becomes a Comment node of the tree.
C19_ConsumesOneStatement ==
    (IsSome(last_call) /\ Unwrap(last_call).ret.tag = "ok") =>
        LET ret == Unwrap(last_call).ret
            toks == LastStatementTokens
            term == TerminatorIndex(toks)
            following == next_token(buffer, ret.pos)
            rest == ScanFrom(buffer, Unwrap(last_call).start, Len(buffer)).tokens
            later == LaterLineComments(rest, term, term + 1)
            nodes == CommentNodeTexts(Unwrap(parser.root))
        IN /\ term <= Len(toks)
           /\ \A j \in term + 1..Len(toks) :
                 toks[j].token_type \in {"WhiteSpace", "Comment"}
           /\ following.ok
           /\ IsSome(following.v) =>
                 Unwrap(following.v)[2].token_type \notin {"WhiteSpace", "Comment"}
           /\ parser.status = "running" => parser.pos >= ret.pos
           /\ parser.status = "ok" =>
                 /\ Len(nodes) >= Len(later)
                 /\ SubSeq(nodes, Len(nodes) - Len(later) + 1, Len(nodes)) = later

\* index in toks of the first token after the keyword that is not white space, a
\* line break or a comment, or Len(toks) + 1
ValueIndex(toks) == FirstAfter(toks, SolidTypes, 1, Len(toks) + 1)

\* the value that the token stands for by its kind
ValueOfKind(token) ==
    [kind |-> CASE token.token_type = "String" -> "String"
                [] token.token_type = "Number" -> "Number"
                [] token.token_type = "Date" -> "Date"
                [] OTHER -> "Other",
     text |-> token.text,
     parts |-> <<>>]

\* the errors that parse_statement raises at a token of its own
StatementErrorMessages ==
    {"Unexpected token", "Unexpected concatenation of non-string value"}

\* the tokens from the start of the last call of parse_statement, as far as they scan
LastCallTokens == ScanFrom(buffer, Unwrap(last_call).start, Len(buffer)).tokens

\* C23 (value capture in GotKeyword): for every call of parse_statement that has read
\* a keyword, the comments between the keyword and the first token that is not white
\* space, a line break or a comment are the keyword_comments; if that token is ";" the
\* statement is a leaf without value, if it is "{" a block without value; a token of
\* any other kind is never rejected and becomes the value (or the first fragment of a
\* concatenation): String, Number or Date by its kind and Other(text) for every other
\* kind, "+" and "}" included.
C23_ValueCapture ==
    (IsSome(last_call) /\ LastCallTokens # <<>> /\ LastCallTokens[1].token_type = "Other") =>
        LET ret == Unwrap(last_call).ret
            toks == LastCallTokens
            v == ValueIndex(toks)
        IN /\ (ret.tag = "err" /\ ret.message \in StatementErrorMessages) =>
                 /\ v <= Len(toks)
                 /\ ret.position > toks[v].span[1]
           /\ ret.tag = "ok" =>
                 /\ v <= Len(toks)
                 /\ ret.statement.keyword_comments = CommentsBetween(toks, 1, v)
                 /\ toks[v].token_type = "SemiColon" =>
                       ret.statement.value = None /\ ~ret.opens_block
                 /\ toks[v].token_type = "OpenCurlyBrace" =>
                       ret.statement.value = None /\ ret.opens_block
                 /\ toks[v].token_type \notin TerminatorTypes =>
                       /\ IsSome(ret.statement.value)
                       /\ IF IsConcatValue(ret.statement)
                          THEN /\ toks[v].token_type = "String"
                               /\ Unwrap(ret.statement.value).parts[1][1] = toks[v].text
                          ELSE ret.statement.value = Some(ValueOfKind(toks[v]))

\* parse has returned a tree for an input in which parse_statement took the token
\* of the given type, after the keyword and a line break or a comment, as the value
ValueCaptured(type, kind) ==
    /\ parser.status = "ok" /\ IsSome(last_call) /\ Unwrap(last_call).ret.tag = "ok"
    /\ LET toks == LastCallTokens
           v == ValueIndex(toks)
       IN /\ v <= Len(toks)
          /\ toks[v].token_type = type
          /\ Unwrap(Unwrap(last_call).ret.statement.value).kind = kind

C23_Witness ==
    /\ ValueCaptured("Plus", "Other")
    /\ Unwrap(Unwrap(last_call).ret.statement.value).text = <<PLUS>>

\* index in toks of the first token after index i that is not white space, a line
\* break or a comment, or Len(toks) + 1
NextSolid(toks, i) == FirstAfter(toks, SolidTypes, i, Len(toks) + 1)

\* parse_statement returned the error message at the token
FailedAt(ret, message, token) ==
    /\ ret.tag = "err"
    /\ ret.message = message
    /\ ret.position = token.span[1]

\* parse_statement did not fail at or before the token
PassedToken(ret, token) ==
    ret.tag = "err" => ret.position > token.span[1]

\* C24 (concatenation requires a string on the left): for every call of
\* parse_statement that has read a keyword and a value, the next token that is not
\* white space, a line break or a comment decides: a ";" or "{" is accepted; a "+" is
\* accepted when the value is a quoted string and fails with "Unexpected concatenation
\* of non-string value" at the offset of the "+" when it is a Number, Date or Other
\* value; every other token fails with "Unexpected token" at the token's offset.
C24_ConcatNeedsStringLeft ==
    (IsSome(last_call) /\ LastCallTokens # <<>> /\ LastCallTokens[1].token_type = "Other") =>
        LET ret == Unwrap(last_call).ret
            toks == LastCallTokens
            v == ValueIndex(toks)
            n == NextSolid(toks, v)
        IN (v <= Len(toks) /\ toks[v].token_type \notin TerminatorTypes /\ n <= Len(toks)) =>
              CASE toks[n].token_type \in TerminatorTypes -> PassedToken(ret, toks[n])
                [] toks[n].token_type = "Plus" ->
                     IF toks[v].token_type = "String"
                     THEN PassedToken(ret, toks[n])
                     ELSE FailedAt(ret, "Unexpected concatenation of non-string value",
                                   toks[n])
                [] OTHER -> FailedAt(ret, "Unexpected token", toks[n])

\* parse_statement has refused the "+" after a value of the kind, at the "+"
PlusRefusedAfter(type) ==
    /\ IsSome(last_call)
    /\ LET toks == LastCallTokens IN
          /\ ValueIndex(toks) <= Len(toks)
          /\ toks[ValueIndex(toks)].token_type = type
          /\ NextSolid(toks, ValueIndex(toks)) <= Len(toks)
          /\ toks[NextSolid(toks, ValueIndex(toks))].token_type = "Plus"
          /\ FailedAt(Unwrap(last_call).ret, "Unexpected concatenation of non-string value",
                      toks[NextSolid(toks, ValueIndex(toks))])

\* a "+" refused after a date that a line break separates from it
C24_Witness == PlusRefusedAfter("Date")

\* where a chain of fragments and "+" tokens ends, read from index i of toks on, by
\* the grammar String ("+" String)* (";" | "{"): the index of the terminator ("term"),
\* of the first token out of place ("bad"), or the end of the tokens ("end")
RECURSIVE ChainEnd(_, _, _)
ChainEndAt(toks, n, after_plus) ==
    IF n > Len(toks) THEN [kind |-> "end", n |-> n]
    ELSE IF after_plus
    THEN IF toks[n].token_type = "String" THEN ChainEnd(toks, n, FALSE)
         ELSE [kind |-> "bad", n |-> n]
    ELSE IF toks[n].token_type = "Plus" THEN ChainEnd(toks, n, TRUE)
    ELSE IF toks[n].token_type \in TerminatorTypes THEN [kind |-> "term", n |-> n]
    ELSE [kind |-> "bad", n |-> n]

ChainEnd(toks, i, after_plus) == ChainEndAt(toks, NextSolid(toks, i), after_plus)

\* toks start with a keyword and a quoted string followed by a "+"
IsChain(toks) ==
    /\ toks # <<>> /\ toks[1].token_type = "Other"
    /\ ValueIndex(toks) <= Len(toks)
    /\ toks[ValueIndex(toks)].token_type = "String"
    /\ NextSolid(toks, ValueIndex(toks)) <= Len(toks)
    /\ toks[NextSolid(toks, ValueIndex(toks))].token_type = "Plus"

\* what the grammar says of the end of the chain against what parse_statement returned
ChainEndsAs(ret, toks, end, consumed) ==
    /\ end.kind = "bad" => FailedAt(ret, "Unexpected token", toks[end.n])
    /\ end.kind = "term" =>
          /\ PassedToken(ret, toks[end.n])
          /\ ret.tag = "ok" =>
                /\ IsConcatValue(ret.statement)
                /\ ret.opens_block = (toks[end.n].token_type = "OpenCurlyBrace")
                /\ \A k \in end.n + 1..Len(consumed) : IsTrivia(consumed[k])
    /\ end.kind = "end" => ret.tag = "err"

ChainChecked(ret, toks) ==
    IsChain(toks) =>
        ChainEndsAs(ret, toks, ChainEnd(toks, ValueIndex(toks), FALSE),
                    IF ret.tag = "ok" THEN LastStatementTokens ELSE <<>>)

\* C25 (concatenation requires a string on the right): in a chain that starts with a
\* quoted string and a "+", the first token that is not white space, a line break or
\* a comment after each "+" must be a quoted string, and after each fragment a "+",
\* ";" or "{"; parse_statement fails with "Unexpected token" at the first token that
\* is out of place (a ";", "{", "+" or value that is no string after a "+"; a value
\* after a fragment) and otherwise ends the chain at the ";" or "{" after a fragment.
C25_ConcatNeedsStringRight ==
    IsSome(last_call) => ChainChecked(Unwrap(last_call).ret, LastCallTokens)

\* the chain of toks has two fragments and then a "+" followed by a terminator
EndsAtTerminatorAfterPlus(toks, end) ==
    /\ end.kind = "bad"
    /\ toks[end.n].token_type \in TerminatorTypes
    /\ Len(TextsOfType(SubSeq(toks, 1, end.n), "String")) = 2

ChainRefusedAtTerminator(toks) ==
    /\ IsChain(toks)
    /\ EndsAtTerminatorAfterPlus(toks, ChainEnd(toks, ValueIndex(toks), FALSE))

\* parse_statement has refused the terminator that follows the second "+" of a chain
\* of two fragments
C25_Witness ==
    /\ IsSome(last_call)
    /\ Unwrap(last_call).ret.tag = "err"
    /\ ChainRefusedAtTerminator(LastCallTokens)

\* the comment lists of the fragments of a concatenation
FragmentComments_of(statement) ==
    [k \in 1..Len(Unwrap(statement.value).parts) |-> Unwrap(statement.value).parts[k][2]]

\* the comments of a chain by the place of their tokens
ChainCommentsAsPlaced(statement, toks, v, term) ==
    /\ term <= Len(toks)
    /\ toks[v].token_type = "String"
    /\ FragmentComments_of(statement) = CommentsPerFragment(toks, v, term)
    /\ statement.value_comments = <<>>
    /\ statement.post_comments = CommentsBetween(toks, term, Len(toks) + 1)
    /\ \A k \in v + 1..FirstAfter(toks, {"Plus"}, v, term) - 1 :
          toks[k].token_type = "Comment" =>
              \E j \in 1..Len(Unwrap(statement.value).parts[1][2]) :
                  Unwrap(statement.value).parts[1][2][j] = toks[k].text

\* C26 (comment attribution in a concatenation chain): in a statement with a
\* concatenation that parse_statement returns, the comment list of each fragment
\* holds, in source order, the comments between its String token and the next String
\* token (or the terminator), those before a "+" and those after it alike; so the
\* comments between the first string and the first "+" are in the list of the first
\* fragment; value_comments is empty; the comments consumed after the terminator are
\* the post_comments.
C26_ChainCommentAttribution ==
    (IsSome(last_call) /\ Unwrap(last_call).ret.tag = "ok"
     /\ IsConcatValue(Unwrap(last_call).ret.statement)) =>
        ChainCommentsAsPlaced(Unwrap(last_call).ret.statement, LastStatementTokens,
                              ValueIndex(LastStatementTokens),
                              TerminatorIndex(LastStatementTokens))

\* toks hold a comment between the first string and the "+", one between the "+"
\* and the second string, one after the second string and one after the terminator
CommentsAroundPlus(toks, v, plus, term) ==
    /\ plus < term /\ term <= Len(toks)
    /\ CommentsBetween(toks, v, plus) # <<>>
    /\ CommentsBetween(toks, plus, FirstAfter(toks, StringTypes, plus, term)) # <<>>
    /\ CommentsBetween(toks, FirstAfter(toks, StringTypes, plus, term), term) # <<>>
    /\ CommentsBetween(toks, term, Len(toks) + 1) # <<>>

\* parse_statement has returned a concatenation read from such tokens
C26_Witness ==
    /\ IsSome(last_call) /\ Unwrap(last_call).ret.tag = "ok"
    /\ IsConcatValue(Unwrap(last_call).ret.statement)
    /\ CommentsAroundPlus(LastStatementTokens, ValueIndex(LastStatementTokens),
                          FirstAfter(LastStatementTokens, {"Plus"}, 1,
                                     Len(LastStatementTokens) + 1),
                          TerminatorIndex(LastStatementTokens))

\* the offset at which the last token of toks starts, 0 when there is none
LastTokenOffset(toks) == IF toks = <<>> THEN 0 ELSE toks[Len(toks)].span[1]

\* what parse_statement may return for a stream toks that ends before a terminator
EndOfInputReturned(ret, toks) ==
    /\ ret.tag = "err"
    /\ \/ /\ ret.message = "Unexpected end of input"
          /\ ret.position = LastTokenOffset(toks)
       \/ /\ ret.message \in StatementErrorMessages
          /\ \E k \in 1..Len(toks) : ret.position = toks[k].span[1]

NoTerminator(toks) == \A k \in 1..Len(toks) : toks[k].token_type \notin TerminatorTypes

\* C27 (end of input inside a statement is an error value): parse_statement never
\* panics; when the token stream ends before any ";" or "{", in whichever of the
\* states Clean, GotKeyword, GotValue and GotStringConcat, and no token has been
\* refused, it returns the error "Unexpected end of input" with the offset of the last
\* token read (0 when there was none); a statement is returned only for a stream with
\* a ";" or "{".
C27_EndOfInputIsError ==
    IsSome(last_call) =>
        /\ Unwrap(last_call).ret.tag # "panic"
        /\ (ScanAll(buffer).ok /\ NoTerminator(ScanAll(buffer).tokens)) =>
              EndOfInputReturned(Unwrap(last_call).ret, ScanAll(buffer).tokens)
        /\ Unwrap(last_call).ret.tag = "ok" => ~NoTerminator(LastStatementTokens)

\* the nodes of a tree in source order: "E" for an EmptyLine, "C" for a Comment, "S"
\* for a Statement, and "}" after the children of a block
RECURSIVE ShapeNodes(_)
ShapeNodes(nodes) ==
    IF nodes = <<>> THEN <<>>
    ELSE (CASE nodes[1].node = "EmptyLine" -> <<"E">>
            [] nodes[1].node = "Comment" -> <<"C">>
            [] OTHER -> <<"S">> \o (IF IsSome(nodes[1].children)
                                    THEN ShapeNodes(Unwrap(nodes[1].children)) \o <<"}">>
                                    ELSE <<>>))
         \o ShapeNodes(Tail(nodes))

\* the same read from the tokens, toks[k] onwards: at statement level ("level") a
\* line break gives "E" when count line breaks of its run came before it, white
\* space keeps the count, anything else ends the run; in a statement ("inside") nothing is given up to
\* its ";" or "{", nor for the white space and comments that follow it ("after")
RECURSIVE ShapeTokens(_, _, _, _)
ShapeTokens(toks, k, place, count) ==
    IF k > Len(toks) THEN <<>>
    ELSE LET type == toks[k].token_type IN
         CASE place = "inside" ->
                 ShapeTokens(toks, k + 1,
                             IF type \in TerminatorTypes THEN "after" ELSE "inside", 0)
           [] place = "after" /\ type \in {"WhiteSpace", "Comment"} ->
                 ShapeTokens(toks, k + 1, "after", 0)
           [] OTHER ->
                 CASE type = "WhiteSpace" -> ShapeTokens(toks, k + 1, "level", count)
                   [] type = "LineBreak" ->
                         (IF count >= 1 THEN <<"E">> ELSE <<>>)
                         \o ShapeTokens(toks, k + 1, "level", count + 1)
                   [] type = "Comment" -> <<"C">> \o ShapeTokens(toks, k + 1, "level", 0)
                   [] type = "ClosingCurlyBrace" ->
                         <<"}">> \o ShapeTokens(toks, k + 1, "level", 0)
                   [] OTHER -> <<"S">> \o ShapeTokens(toks, k + 1, "inside", 0)

\* C28 (blank-line detection): in the tree parse returns, every maximal run of k >= 1
\* LineBreak tokens at statement level, with nothing but WhiteSpace tokens between
\* them, has added exactly k - 1 EmptyLine nodes, at the place of the run in the
\* sibling list of the run; line breaks inside a statement have added none.
C28_BlankLineDetection ==
    parser.status = "ok" =>
        ShapeNodes(Unwrap(parser.root)) = ShapeTokens(ScanAll(buffer).tokens, 1, "level", 0)

IsShapeAt(shape, k, part) ==
    k + Len(part) - 1 <= Len(shape) /\ SubSeq(shape, k, k + Len(part) - 1) = part
HasShape(shape, part) == \E k \in 1..Len(shape) : IsShapeAt(shape, k, part)

\* a returned tree of a block in which one line break lies before the first
\* statement, three line breaks with white space among them lie between the two
\* statements, and two line breaks lie before the "}"
C28_Witness ==
    /\ parser.status = "ok"
    /\ ShapeNodes(Unwrap(parser.root)) = <<"S", "S", "E", "E", "S", "E", "}">>
    /\ \E k \in 1..(Len(buffer) - 3) : SubSeq(buffer, k, k + 3) = <<LF, SPACE, LF, LF>>

\* a list below the top of the stack: its last node is a statement without children
EndsWithOpenStatement(nodes) ==
    /\ nodes # <<>>
    /\ nodes[Len(nodes)].node = "Statement"
    /\ nodes[Len(nodes)].children = None

\* the token texts of a list whose last statement has read its "{" but not its "}"
RenderOpen(nodes) ==
    LET texts == RenderNodes(nodes)
    IN SubSeq(texts, 1, Len(texts) - 1) \o <<<<LEFT_CURLY_BRACKET>>>>

\* the token texts of the lists of a node stack, from list k upwards
RECURSIVE RenderStack(_, _)
RenderStack(node_stack, k) ==
    IF k > Len(node_stack) THEN <<>>
    ELSE IF k = Len(node_stack) THEN RenderNodes(node_stack[k])
    ELSE RenderOpen(node_stack[k]) \o RenderStack(node_stack, k + 1)

StackInvariant(node_stack, toks) ==
    /\ Len(node_stack) >= 1
    /\ \A k \in 1..(Len(node_stack) - 1) : EndsWithOpenStatement(node_stack[k])
    /\ RenderStack(node_stack, 1) = SolidTexts(toks)

\* C29 (stack invariant of the tree builder): at the start of every iteration of the
\* loop of parse the node stack is not empty and the last node of every list below
\* the top is a Statement with children = None, the one whose "{" opened the list
\* above it: the lists, each lower one read with a "{" after its last statement, give
\* the tokens consumed so far; parse never reaches the unreachable! of the "}" arm.
C29_StackInvariant ==
    /\ parser.status # "panic"
    /\ parser.status = "running" =>
          StackInvariant(parser.node_stack, ScanFrom(buffer, 0, parser.pos).tokens)

\* an iteration that starts in a block opened after an earlier block was closed
C29_Witness ==
    /\ parser.status = "running"
    /\ Len(parser.node_stack) = 2
    /\ Len(parser.node_stack[1]) = 2
    /\ parser.node_stack[1][1].node = "Statement"
    /\ parser.node_stack[1][1].children = Some(<<>>)
    /\ parser.pos > 0

\* every token the lexer yields from offset c on ends after c
LexerAdvances(buf) ==
    \A c \in 0..Len(buf) - 1 :
        LET r == next_token(buf, c)
        IN (r.ok /\ IsSome(r.v)) =>
              /\ Unwrap(r.v)[1] > c
              /\ Unwrap(r.v)[1] = Unwrap(r.v)[2].span[2] + 1

\* C36 (termination of parse): every lexer step on the input ends after the offset it
\* started at; every iteration of the loop of parse that does not return leaves the
\* stream further on than it found it, and so does every call of parse_statement,
\* whose loops take one token per iteration; no iteration leaves the state of the
\* loop as it was; parse returns a tree or an error in the end.
C36_Termination ==
    /\ LexerAdvances(buffer)
    /\ [][/\ (parser.status = "running" /\ parser'.status = "running") =>
                parser'.pos > parser.pos
          /\ (last_call' # last_call /\ Unwrap(last_call').ret.tag = "ok") =>
                Unwrap(last_call').ret.pos > Unwrap(last_call').start]_vars
    /\ [](parser.status = "running" => parse_iteration(buffer, parser) # parser)
    /\ <>ParseReturned

\* parse has returned a tree after it went through a block with a concatenation
C36_Witness ==
    /\ parser.status = "ok"
    /\ parser.prev_token_pos > 2 * MaxItems
    /\ \E k \in 1..Len(Unwrap(parser.root)) :
          /\ HasChildren(Unwrap(parser.root)[k])
          /\ Len(Unwrap(Unwrap(parser.root)[k].children)) > 0
          /\ IsConcatValue(Unwrap(Unwrap(parser.root)[k].children)[1])

(***************************************************************************)
(* Properties of the formatter, checked under SpecFmt                      *)
(***************************************************************************)

\* C1 (idempotence): when format(s, c) succeeds with output t, format(t, c) succeeds
\* too and its output is t byte for byte.
C1_Idempotence ==
    (run = 2 /\ fmt.state \in {"done", "failed"}) =>
        (fmt.state = "done" /\ fmt.out = buffer)

\* the texts of the Comment tokens of toks
RECURSIVE CommentTexts(_)
CommentTexts(toks) ==
    IF toks = <<>> THEN <<>>
    ELSE (IF toks[1].token_type = "Comment" THEN <<toks[1].text>> ELSE <<>>)
         \o CommentTexts(Tail(toks))

Count(seq, x) == Cardinality({k \in 1..Len(seq) : seq[k] = x})

SameMultiset(a, b) ==
    \A x \in {a[k] : k \in 1..Len(a)} \cup {b[k] : k \in 1..Len(b)} :
        Count(a, x) = Count(b, x)

\* C2 (comment conservation): for an input that parses, the multiset of the texts of
\* the Comment tokens of the formatted output is that of the input; no comment is
\* dropped, duplicated, merged or altered.
C2_CommentConservation ==
    fmt.state = "done" =>
        SameMultiset(CommentTexts(ScanAll(buffer).tokens),
                     CommentTexts(ScanAll(fmt.out).tokens))

\* keywords, value kinds (with the number of fragments) and nesting of the statements
RECURSIVE Shape(_)
Shape(nodes) ==
    IF nodes = <<>> THEN <<>>
    ELSE (IF nodes[1].node # "Statement" THEN <<>>
          ELSE <<[keyword |-> KeywordText(nodes[1].keyword),
                  kind |-> IF IsSome(nodes[1].value) THEN Unwrap(nodes[1].value).kind
                           ELSE "None",
                  fragments |-> IF IsSome(nodes[1].value)
                                THEN Len(Unwrap(nodes[1].value).parts) ELSE 0,
                  children |-> IF IsSome(nodes[1].children)
                               THEN Some(Shape(Unwrap(nodes[1].children))) ELSE None]>>)
         \o Shape(Tail(nodes))

\* C3 (round-trip structure preservation): the output of a successful format parses,
\* and its tree has the keywords, the value kind of each statement (a concatenation
\* with as many fragments) and the block nesting of the tree parsed from the input.
C3_RoundTrip ==
    (run = 2 /\ fmt.state \in {"parsed", "failed"}) =>
        /\ fmt.state = "parsed"
        /\ Shape(fmt.parsed) = Shape(Unwrap(fmt.first).parsed)

\* C4 (no partial output on a parse failure): when parse(buffer) returns an error,
\* format returns that error and the sink holds zero bytes; bytes are in the sink only
\* when the whole input has parsed.
C4_NoPartialOutput ==
    LET result == parse(buffer) IN
    /\ fmt.state = "failed" =>
          /\ result.status = "err"
          /\ fmt.error = result.error
          /\ fmt.out = <<>>
    /\ fmt.out # <<>> => result.status = "ok"
    /\ fmt.state # "start" /\ result.status # "ok" => fmt.state = "failed"

\* format has returned the error of an input of which parse had built nodes before
\* it failed
C4_Witness ==
    /\ fmt.state = "failed"
    /\ Unwrap(fmt.error).position > 0
    /\ parse(buffer).node_stack # <<>>
    /\ parse(buffer).node_stack[1] # <<>>

\* identifier and identifier ":" identifier of the grammar
IsIdentifier(str) ==
    /\ Len(str) > 0
    /\ IsIdentStart(str[1])
    /\ \A k \in 2..Len(str) : IsIdentChar(str[k])

IsExtensionForm(str) ==
    \E k \in 1..Len(str) :
        /\ str[k] = COLON
        /\ IsIdentifier(SubSeq(str, 1, k - 1))
        /\ IsIdentifier(SubSeq(str, k + 1, Len(str)))

KeywordClass(str) ==
    IF str \in STATEMENT_KEYWORDS THEN "Keyword"
    ELSE IF IsExtensionForm(str) THEN "ExtensionKeyword"
    ELSE "Invalid"

\* every statement of nodes, at any depth, has the tag its keyword text gives
RECURSIVE AllKeywordsTagged(_)
AllKeywordsTagged(nodes) ==
    \A k \in 1..Len(nodes) :
        nodes[k].node = "Statement" =>
            /\ nodes[k].keyword.tag = KeywordClass(nodes[k].keyword.text)
            /\ IsSome(nodes[k].children) => AllKeywordsTagged(Unwrap(nodes[k].children))

\* the first token of the input, when it is of kind Other
FirstOther ==
    LET r == next_token(buffer, 0)
    IN IF r.ok /\ IsSome(r.v) /\ Unwrap(r.v)[2].token_type = "Other"
       THEN Some(Unwrap(r.v)[2].text) ELSE None

\* C12 (keywords are never rejected): an input that starts with a token of kind Other
\* is never failed with an unexpected-token error at that token; when it parses, the
\* first node is a statement that keeps the token's text as its keyword, every
\* statement of the tree is tagged Keyword when its text is in the keyword set,
\* else ExtensionKeyword when the text is identifier ":" identifier, else Invalid,
\* and the output starts with the keyword text, byte for byte, followed by a space, a
\* line break or ";".
C12_KeywordsNeverRejected ==
    /\ fmt.state \in {"parsed", "writing", "done"} => AllKeywordsTagged(fmt.parsed)
    /\ (run = 1 /\ IsSome(FirstOther)) =>
          LET kw == Unwrap(FirstOther) IN
          /\ fmt.state = "failed" =>
                Unwrap(fmt.error) # [message |-> "Unexpected token", position |-> 0]
          /\ fmt.state \in {"parsed", "writing", "done"} =>
                /\ fmt.parsed[1].node = "Statement"
                /\ fmt.parsed[1].keyword.text = kw
          /\ (fmt.state \in {"writing", "done"} /\ fmt.next > 1) =>
                /\ Len(fmt.out) > Len(kw)
                /\ SubSeq(fmt.out, 1, Len(kw)) = kw
                /\ fmt.out[Len(kw) + 1] \in {SPACE, LF, SEMICOLON}

\* an input whose keyword has a colon but not the form identifier ":" identifier has
\* been parsed, tagged Invalid and written
C12_Witness ==
    /\ run = 1 /\ fmt.state = "done"
    /\ IsSome(FirstOther)
    /\ \E k \in 1..Len(Unwrap(FirstOther)) : Unwrap(FirstOther)[k] = COLON
    /\ fmt.parsed[1].keyword.tag = "Invalid"
    /\ IsSome(fmt.parsed[1].value)
    /\ fmt.out # <<>>

\* the quoted values of the statements of nodes, in source order at any depth: the
\* text of each String value and of each fragment of a concatenation
RECURSIVE StringValues(_)
OwnStringValues(node) ==
    IF IsStringValue(node)
    THEN <<[text |-> Unwrap(node.value).text, fragment |-> FALSE]>>
    ELSE IF IsConcatValue(node)
    THEN [k \in 1..Len(Unwrap(node.value).parts) |->
             [text |-> Unwrap(node.value).parts[k][1], fragment |-> TRUE]]
    ELSE <<>>

StringValues(nodes) ==
    IF nodes = <<>> THEN <<>>
    ELSE (IF nodes[1].node # "Statement" THEN <<>>
          ELSE OwnStringValues(nodes[1])
               \o (IF IsSome(nodes[1].children)
                   THEN StringValues(Unwrap(nodes[1].children)) ELSE <<>>))
         \o StringValues(Tail(nodes))

\* the bytes between the delimiters
Inner(str) == SubSeq(str, 2, Len(str) - 1)

\* the delimiter the claim gives the quoted text str
ExpectedQuote(str) ==
    IF str[1] = SINGLE_QUOTE /\ \A k \in 2..Len(str) - 1 : str[k] # DOUBLE_QUOTE
    THEN DOUBLE_QUOTE ELSE str[1]

\* content that stripping and dedenting leave alone: one line with no white space at
\* either end
NothingToStrip(inner) ==
    \/ inner = <<>>
    \/ /\ ~is_whitespace(inner[1])
       /\ ~is_whitespace(inner[Len(inner)])
       /\ \A k \in 1..Len(inner) : inner[k] # LF

\* C14 (quote normalization is content-safe): after the formatting transform every
\* quoted value and every fragment that was single-quoted with no '"' inside has '"'
\* as both delimiters, and every other one (single-quoted with a '"' inside, or
\* double-quoted) has the delimiters it had; the bytes between the delimiters of a
\* fragment, and of a value that has nothing to strip or dedent, are unchanged.
C14_QuoteNormalization ==
    fmt.state \in {"writing", "done"} =>
        LET before == StringValues(fmt.parsed)
            after == StringValues(fmt.tree)
        IN /\ Len(before) = Len(after)
           /\ \A k \in 1..Len(before) :
                 /\ after[k].text[1] = ExpectedQuote(before[k].text)
                 /\ after[k].text[Len(after[k].text)] = ExpectedQuote(before[k].text)
                 /\ (before[k].fragment \/ NothingToStrip(Inner(before[k].text))) =>
                        Inner(after[k].text) = Inner(before[k].text)

\* the transform has been applied to a concatenation with a single-quoted fragment
\* that became double-quoted and a single-quoted fragment with a '"' inside
C14_Witness ==
    /\ fmt.state = "writing" /\ run = 1
    /\ LET before == StringValues(fmt.parsed)
           after == StringValues(fmt.tree)
       IN /\ \E k \in 1..Len(before) :
                /\ before[k].fragment
                /\ before[k].text[1] = SINGLE_QUOTE
                /\ after[k].text[1] = DOUBLE_QUOTE
          /\ \E k \in 1..Len(before) :
                /\ before[k].fragment
                /\ before[k].text[1] = SINGLE_QUOTE
                /\ after[k].text = before[k].text

\* no EmptyLine first, last or next to another, in nodes and in every block of nodes
RECURSIVE BlankLineBound(_)
BlankLineBound(nodes) ==
    /\ nodes # <<>> =>
          ~is_empty_line(nodes[1]) /\ ~is_empty_line(nodes[Len(nodes)])
    /\ \A k \in 1..Len(nodes) - 1 : ~(is_empty_line(nodes[k]) /\ is_empty_line(nodes[k + 1]))
    /\ \A k \in 1..Len(nodes) :
          (nodes[k].node = "Statement" /\ IsSome(nodes[k].children)) =>
              BlankLineBound(Unwrap(nodes[k].children))

\* the nodes other than EmptyLine, in order: comments by text, statements by keyword
\* and block
RECURSIVE Skeleton(_)
Skeleton(nodes) ==
    IF nodes = <<>> THEN <<>>
    ELSE (CASE nodes[1].node = "EmptyLine" -> <<>>
            [] nodes[1].node = "Comment" -> <<nodes[1]>>
            [] nodes[1].node = "Statement" ->
                 <<[node |-> "Statement", keyword |-> nodes[1].keyword,
                    children |-> IF IsSome(nodes[1].children)
                                 THEN Some(Skeleton(Unwrap(nodes[1].children)))
                                 ELSE None]>>)
         \o Skeleton(Tail(nodes))

\* the number of EmptyLine nodes in nodes and in the blocks of nodes
RECURSIVE EmptyLines(_)
EmptyLines(nodes) ==
    IF nodes = <<>> THEN 0
    ELSE (IF is_empty_line(nodes[1]) THEN 1
          ELSE IF nodes[1].node = "Statement" /\ IsSome(nodes[1].children)
          THEN EmptyLines(Unwrap(nodes[1].children)) ELSE 0)
         + EmptyLines(Tail(nodes))

\* C15 (blank-line bound): after the formatting transform, in the root list and in
\* the children of every block, the first node is not an EmptyLine, the last node is
\* not an EmptyLine and no two EmptyLine nodes are adjacent; the nodes that are not
\* EmptyLine are the ones parse returned, in the same order.
C15_BlankLineBound ==
    fmt.state \in {"writing", "done"} =>
        /\ BlankLineBound(fmt.tree)
        /\ Skeleton(fmt.tree) = Skeleton(fmt.parsed)

\* three EmptyLine nodes in a row between two statements, in nodes or in a block
RECURSIVE HasRunOfThree(_)
HasRunOfThree(nodes) ==
    \/ \E k \in 2..Len(nodes) - 4 :
          /\ nodes[k - 1].node = "Statement" /\ nodes[k + 3].node = "Statement"
          /\ \A j \in k..k + 2 : is_empty_line(nodes[j])
    \/ \E k \in 1..Len(nodes) :
          /\ nodes[k].node = "Statement" /\ IsSome(nodes[k].children)
          /\ HasRunOfThree(Unwrap(nodes[k].children))

\* the transform has been applied to a tree with EmptyLine nodes at the start of the
\* root list, at the end of a block and three in a row between two statements, and
\* has kept one of them
C15_Witness ==
    /\ fmt.state = "writing" /\ run = 1
    /\ HasRunOfThree(fmt.parsed)
    /\ is_empty_line(fmt.parsed[1])
    /\ EmptyLines(fmt.parsed) >= 6
    /\ EmptyLines(fmt.tree) = 1

\* a Date, Number or Other value, or a quoted string of one line
HasSimpleValue(node) ==
    /\ node.node = "Statement" /\ IsSome(node.value)
    /\ \/ Unwrap(node.value).kind \in {"Date", "Number", "Other"}
       \/ /\ Unwrap(node.value).kind = "String"
          /\ \A k \in 1..Len(Unwrap(node.value).text) : Unwrap(node.value).text[k] # LF

\* the terminator of a statement as it is printed
TerminatorOf(node) ==
    IF IsSome(node.children) THEN <<SPACE, LEFT_CURLY_BRACKET>> ELSE <<SEMICOLON>>

\* keyword, space, value and terminator of node on one line at depth
OneLine(node, cfg, depth) ==
    indent(cfg, depth) \o node.keyword.text \o <<SPACE>> \o Unwrap(node.value).text
    \o TerminatorOf(node)

\* the keyword on its line and the value with the terminator on the next line, one
\* level deeper
Wrapped(node, cfg, depth) ==
    indent(cfg, depth) \o node.keyword.text \o <<LF>> \o indent(cfg, depth + 1)
    \o Unwrap(node.value).text \o TerminatorOf(node)

\* every statement of nodes with a simple value, at depth and below, is written
\* wrapped when its one line would be longer than the width, and on one line if not
RECURSIVE WrapsGreedily(_, _, _)
WrapsGreedily(nodes, cfg, depth) ==
    \A k \in 1..Len(nodes) :
        /\ HasSimpleValue(nodes[k]) =>
              StartsWith(write_node(nodes[k], cfg, depth),
                         IF Len(OneLine(nodes[k], cfg, depth)) > cfg.line_length
                         THEN Wrapped(nodes[k], cfg, depth)
                         ELSE OneLine(nodes[k], cfg, depth))
        /\ (nodes[k].node = "Statement" /\ IsSome(nodes[k].children)) =>
              WrapsGreedily(Unwrap(nodes[k].children), cfg, depth + 1)

\* C16 (line-width greedy wrap): every statement with a Date, Number, Other or
\* one-line quoted value, at every depth and with either terminator, is written with
\* the value on the next line, one level deeper, when indentation, keyword, space,
\* value and terminator (";" or " {") are longer than line_length together, and on
\* one line otherwise; so no such unwrapped line is longer than line_length.
C16_GreedyWrap ==
    fmt.state \in {"writing", "done"} => WrapsGreedily(fmt.tree, config, 0)

\* the later fragments, each on its own line as "+ " and the fragment, with the
\* fragment's opening quote in column col (counted from 0)
RECURSIVE AlignedRest(_, _)
AlignedRest(rest, col) ==
    IF rest = <<>> THEN <<>>
    ELSE (<<LF>> \o Spaces(col - 2) \o <<PLUS, SPACE>> \o rest[1][1]
          \o write_comments(rest[1][2]))
         \o AlignedRest(Tail(rest), col)

\* a concatenation written after its keyword with every opening quote in the column
\* of the first
AlignedConcat(node, cfg, depth) ==
    LET parts == Unwrap(node.value).parts
        col == Len(indent(cfg, depth)) + Len(node.keyword.text) + 1
    IN indent(cfg, depth) \o node.keyword.text \o <<SPACE>> \o parts[1][1]
       \o write_comments(parts[1][2]) \o AlignedRest(Tail(parts), col)

RECURSIVE ConcatsAligned(_, _, _)
ConcatsAligned(nodes, cfg, depth) ==
    \A k \in 1..Len(nodes) :
        /\ IsConcatValue(nodes[k]) =>
              StartsWith(write_node(nodes[k], cfg, depth),
                         AlignedConcat(nodes[k], cfg, depth))
        /\ (nodes[k].node = "Statement" /\ IsSome(nodes[k].children)) =>
              ConcatsAligned(Unwrap(nodes[k].children), cfg, depth + 1)

\* C17 (concatenation alignment): every statement with a StringConcatenation value,
\* whatever the length of its keyword (1 included) and its depth, is written with the
\* first fragment on the keyword line after one space and each later fragment on a
\* line of its own as "+ " and the fragment, the fragment's opening quote in the
\* column of the first fragment's opening quote.
C17_ConcatAlignment ==
    fmt.state \in {"writing", "done"} => ConcatsAligned(fmt.tree, config, 0)

\* the result of format_yang on the input with the canonical-order toggle flipped
FlippedResult ==
    format_yang(buffer, [config EXCEPT !.fix_canonical_order = ~@])

\* the statements of nodes are in the order of the table
InCanonicalOrder(nodes) ==
    \A j \in 1..Len(nodes) : \A k \in j + 1..Len(nodes) :
        (nodes[j].node = "Statement" /\ nodes[k].node = "Statement") =>
            get_order_for(LEAF_CANONICAL_ORDER, nodes[j])
                <= get_order_for(LEAF_CANONICAL_ORDER, nodes[k])

EndsWithOneLineBreak(text) ==
    /\ Len(text) >= 1
    /\ text[Len(text)] = LF
    /\ Len(text) >= 2 => text[Len(text) - 1] # LF

\* the number of bytes written for nodes at depth
RECURSIVE WrittenLen(_, _, _)
WrittenLen(nodes, cfg, depth) ==
    IF nodes = <<>> THEN 0
    ELSE Len(write_node(nodes[1], cfg, depth)) + WrittenLen(Tail(nodes), cfg, depth)

\* out holds at offset off the line of the closing brace of a block at depth
ClosingLineAt(out, off, cfg, depth) ==
    /\ off >= 1 /\ out[off] = LF
    /\ SubSeq(out, off + 1, off + Len(indent(cfg, depth)) + 2)
          = indent(cfg, depth) \o <<RIGHT_CURLY_BRACKET, LF>>

\* out holds at offset off the texts of nodes one after the other; each text starts
\* at the start of a line and ends with one line break; a statement's line starts with
\* the indentation and the keyword; the children and the closing brace of a block
\* lie in the statement's text on lines of their own
RECURSIVE OnOwnLines(_, _, _, _, _)
OnOwnLinesAt(out, off, nodes, text, cfg, depth) ==
    /\ off = 0 \/ out[off] = LF
    /\ SubSeq(out, off + 1, off + Len(text)) = text
    /\ EndsWithOneLineBreak(text)
    /\ nodes[1].node = "Statement" =>
          /\ SubSeq(text, 1, Len(indent(cfg, depth)) + Len(KeywordText(nodes[1].keyword)))
                = indent(cfg, depth) \o KeywordText(nodes[1].keyword)
          /\ IsSome(nodes[1].children) =>
                LET inner == WrittenLen(Unwrap(nodes[1].children), cfg, depth + 1)
                    closing == Len(indent(cfg, depth)) + 2
                IN /\ OnOwnLines(out, off + Len(text) - closing - inner,
                                 Unwrap(nodes[1].children), cfg, depth + 1)
                   /\ ClosingLineAt(out, off + Len(text) - closing, cfg, depth)
    /\ OnOwnLines(out, off + Len(text), Tail(nodes), cfg, depth)

OnOwnLines(out, off, nodes, cfg, depth) ==
    nodes = <<>> \/ OnOwnLinesAt(out, off, nodes, write_node(nodes[1], cfg, depth), cfg, depth)

C22_InPlaceNeverDamages ==
    cli.in_place =>
        /\ cli.opened => cli.result = "ok"
        /\ cli.result # "ok" => cli.file = cli.before

\* the comments of a statement by place, those of the fragments of a concatenation
\* included
CommentsOf(node) ==
    [node |-> "Statement",
     keyword_comments |-> node.keyword_comments,
     value_comments |-> node.value_comments,
     post_comments |-> node.post_comments,
     fragments |-> IF IsConcatValue(node)
                   THEN [k \in 1..Len(Unwrap(node.value).parts) |->
                            Unwrap(node.value).parts[k][2]]
                   ELSE <<>>]

\* the Comment nodes and the comments of the statements of nodes, in source order at
\* any depth
RECURSIVE TreeComments(_)
TreeComments(nodes) ==
    IF nodes = <<>> THEN <<>>
    ELSE (CASE nodes[1].node = "EmptyLine" -> <<>>
            [] nodes[1].node = "Comment" -> <<nodes[1]>>
            [] OTHER -> <<CommentsOf(nodes[1])>>
                        \o (IF IsSome(nodes[1].children)
                            THEN TreeComments(Unwrap(nodes[1].children)) ELSE <<>>))
         \o TreeComments(Tail(nodes))

\* where the claim puts the comments c of a statement
Moved(c) ==
    IF c.node # "Statement" THEN c
    ELSE [c EXCEPT !.post_comments = (@ \o c.keyword_comments) \o c.value_comments,
                   !.keyword_comments = <<>>,
                   !.value_comments = <<>>]

\* nodes and the lists of children at any depth
RECURSIVE ListsOf(_)
ListsOf(nodes) ==
    {nodes} \cup UNION { ListsOf(Unwrap(nodes[k].children)) :
                           k \in {j \in 1..Len(nodes) : HasChildren(nodes[j])} }

\* a node with the three lists of comments of a statement left out
WithoutOwnComments(node) ==
    IF node.node # "Statement" THEN node
    ELSE [node EXCEPT !.keyword_comments = <<>>, !.value_comments = <<>>,
                      !.post_comments = <<>>]

OnlyOwnCommentsChanged(before, after) ==
    /\ Len(after) = Len(before)
    /\ \A k \in 1..Len(before) : WithoutOwnComments(after[k]) = WithoutOwnComments(before[k])

\* C31 (effect of comment relocation): after the formatting transform every statement
\* at every depth has empty keyword_comments and value_comments, and its post_comments
\* are its original post_comments, then its original keyword_comments, then its
\* original value_comments, each in original order; the comments of the fragments of a
\* concatenation and the Comment nodes are as parsed; relocate_pre_block_comments
\* applied to any list of the parsed tree changes nothing but these three lists of
\* each statement of the list (keyword, value and children are kept).
C31_CommentRelocation ==
    fmt.state \in {"writing", "done"} =>
        /\ TreeComments(fmt.tree) =
               [k \in 1..Len(TreeComments(fmt.parsed)) |-> Moved(TreeComments(fmt.parsed)[k])]
        /\ \A list \in ListsOf(fmt.parsed) :
               OnlyOwnCommentsChanged(list, relocate_pre_block_comments(list))

\* the transform has been applied to a statement with comments after its keyword,
\* after its value and after its terminator
C31_Witness ==
    /\ fmt.state = "writing" /\ run = 1
    /\ \E k \in 1..Len(fmt.parsed) :
          /\ fmt.parsed[k].node = "Statement"
          /\ fmt.parsed[k].keyword_comments # <<>>
          /\ fmt.parsed[k].value_comments # <<>>
          /\ fmt.parsed[k].post_comments # <<>>
          /\ fmt.parsed[k].keyword_comments # fmt.parsed[k].value_comments

\* content without the white space at its two ends
RECURSIVE TrimStart(_)
TrimStart(content) ==
    IF content # <<>> /\ is_whitespace(content[1]) THEN TrimStart(Tail(content))
    ELSE content
RECURSIVE TrimEnd(_)
TrimEnd(content) ==
    IF content # <<>> /\ is_whitespace(content[Len(content)])
    THEN TrimEnd(SubSeq(content, 1, Len(content) - 1))
    ELSE content
Trim(content) == TrimEnd(TrimStart(content))

\* the text that the claim gives the quoted text str when it is stripped
Stripped(str) ==
    IF Trim(Inner(str)) = <<>> THEN <<DOUBLE_QUOTE, DOUBLE_QUOTE>>
    ELSE <<str[1]>> \o Trim(Inner(str)) \o <<str[Len(str)]>>

\* the text of the value of node
ValueText(node) == Unwrap(node.value).text

\* C32 (string stripping): after the formatting transform the content of every quoted
\* value that is not a concatenation has no white space at its start and none at its
\* end; strip_string gives every such value of the parsed tree its delimiters and its
\* content without the white space at the two ends, the empty double-quoted string
\* when nothing else is in it; the fragments of a concatenation keep their content.
C32_StringStripping ==
    fmt.state \in {"writing", "done"} =>
        LET before == StringValues(fmt.parsed)
            after == StringValues(fmt.tree)
        IN /\ Len(before) = Len(after)
           /\ \A k \in 1..Len(before) :
                 IF before[k].fragment
                 THEN Inner(after[k].text) = Inner(before[k].text)
                 ELSE /\ Inner(after[k].text) = Trim(Inner(after[k].text))
                      /\ LET node == [node |-> "Statement",
                                      value |-> Some([kind |-> "String",
                                                      text |-> before[k].text,
                                                      parts |-> <<>>])]
                         IN ValueText(strip_string(node)) = Stripped(before[k].text)

\* the statements of nodes, at any depth, whose value is a quoted text with a line
\* break, each with its depth
RECURSIVE MultiLineAt(_, _)
MultiLineAt(nodes, depth) ==
    IF nodes = <<>> THEN <<>>
    ELSE (IF nodes[1].node # "Statement" THEN <<>>
          ELSE (IF IsStringValue(nodes[1])
                   /\ \E k \in 1..Len(ValueText(nodes[1])) : ValueText(nodes[1])[k] = LF
                THEN <<[node |-> nodes[1], depth |-> depth]>> ELSE <<>>)
               \o (IF IsSome(nodes[1].children)
                   THEN MultiLineAt(Unwrap(nodes[1].children), depth + 1) ELSE <<>>))
         \o MultiLineAt(Tail(nodes), depth)

\* text cut at its line feeds, from index k on with the line begun at index start
RECURSIVE CutAtLineFeeds(_, _, _)
CutAtLineFeeds(text, start, k) ==
    IF k > Len(text) THEN <<SubSeq(text, start, Len(text))>>
    ELSE IF text[k] = LF
    THEN <<SubSeq(text, start, k - 1)>> \o CutAtLineFeeds(text, k + 1, k + 1)
    ELSE CutAtLineFeeds(text, start, k + 1)

\* the layout the claim gives the lines after the first
RECURSIVE LaterLinesLaidOut(_, _)
LaterLinesLaidOut(lines, column) ==
    IF lines = <<>> THEN <<>>
    ELSE <<LF>> \o (IF lines[1] = <<>> THEN <<>> ELSE Spaces(column) \o lines[1])
         \o LaterLinesLaidOut(Tail(lines), column)

MultiLineLaidOut(text, indent_width, depth) ==
    <<LF>> \o Spaces(indent_width * (depth + 1)) \o CutAtLineFeeds(text, 1, 1)[1]
    \o LaterLinesLaidOut(Tail(CutAtLineFeeds(text, 1, 1)),
                         indent_width * depth + indent_width + 1)

\* C33 (multi-line string layout): for every statement of the transformed tree, at any
\* depth, whose value is a quoted text with a line break, the printer writes after the
\* keyword a line break, indent_width * (depth + 1) spaces and the first line, whatever
\* the length of the text, then every later line after a line break, a non-empty one
\* behind indent_width * depth + indent_width + 1 spaces and an empty one bare.
C33_MultiLineLayout ==
    fmt.state \in {"writing", "done"} =>
        \A k \in 1..Len(MultiLineAt(fmt.tree, 0)) :
            LET m == MultiLineAt(fmt.tree, 0)[k]
            IN write_value(config, m.depth, m.node) =
                   MultiLineLaidOut(ValueText(m.node), config.indent_width, m.depth)
                   \o write_comments(m.node.value_comments)

\* a text of four lines, the second one empty, is printed in a block
C33_Witness ==
    /\ fmt.state = "done" /\ run = 1
    /\ \E k \in 1..Len(MultiLineAt(fmt.tree, 0)) :
          LET m == MultiLineAt(fmt.tree, 0)[k]
          IN /\ m.depth = 1
             /\ Len(CutAtLineFeeds(ValueText(m.node), 1, 1)) = 4
             /\ CutAtLineFeeds(ValueText(m.node), 1, 1)[2] = <<>>

(***************************************************************************)
(* Properties of process_statements                                        *)
(***************************************************************************)
ListPasses ==
    {"trim_line_breaks", "squash_line_breaks", "relocate_pre_block_comments",
     "sort_statements"}

\* the place of each pass in the order the passes are listed in: node passes, comment
\* relocation, trimming, squashing, ordering
ListedOrder ==
    <<"convert_to_double_quotes", "strip_string", "dedent_multilined_string",
      "relocate_pre_block_comments", "trim_line_breaks", "squash_line_breaks",
      "sort_statements", "return">>

\* node passes, trimming, squashing, comment relocation, ordering
RunOrder ==
    <<"convert_to_double_quotes", "strip_string", "dedent_multilined_string",
      "trim_line_breaks", "squash_line_breaks", "relocate_pre_block_comments",
      "sort_statements", "return">>

PlaceIn(order, pass) == CHOOSE k \in 1..Len(order) : order[k] = pass

IsProperPrefix(p, q) == Len(p) < Len(q) /\ SubSeq(q, 1, Len(p)) = p

\* the passes over one list, and over one node of it, are logged in the given order,
\* the passes over the nodes before the passes over the list
PassesInOrder(log, order) ==
    \A j, k \in 1..Len(log) :
        (j < k /\ log[j].path = log[k].path
               /\ (log[j].i = 0 \/ log[k].i = 0 \/ log[j].i = log[k].i)) =>
            PlaceIn(order, log[j].pass) < PlaceIn(order, log[k].pass)

\* when a pass over a list is logged, every block of the list has returned from its
\* own call, and nothing is logged for a list inside it afterwards
ChildrenFirst(log, parsed) ==
    \A k \in 1..Len(log) :
        log[k].pass \in ListPasses =>
            /\ \A n \in 1..Len(ListAt(parsed, log[k].path)) :
                  HasChildren(ListAt(parsed, log[k].path)[n]) =>
                      \E j \in 1..(k - 1) :
                          log[j] = [pass |-> "return", path |-> Append(log[k].path, n),
                                    i |-> 0]
            /\ \A j \in (k + 1)..Len(log) : ~IsProperPrefix(log[k].path, log[j].path)

\* C30 as stated (order of the rewrite passes): for every sibling list, each child
\* block is completely transformed before any list-level pass of its parent list runs,
\* and the passes run in the order quote normalization, string stripping, multi-line
\* dedenting, comment relocation, blank-line trimming, blank-line squashing, canonical
\* ordering.
C30_OrderAsListed ==
    /\ ChildrenFirst(fmt.log, fmt.parsed)
    /\ PassesInOrder(fmt.log, ListedOrder)

\* C30 (order of the rewrite passes), amended: for every sibling list, each child
\* block is completely transformed before any list-level pass of its parent list runs;
\* each node gets quote normalization, string stripping and multi-line dedenting in
\* this order, after its own block was transformed and before the next node is
\* touched; the list-level passes then run in the order blank-line trimming,
\* blank-line squashing, comment relocation, canonical ordering; the steps together
\* give the list that process_statements returns.
C30_OrderOfPasses ==
    /\ ChildrenFirst(fmt.log, fmt.parsed)
    /\ PassesInOrder(fmt.log, RunOrder)
    /\ \A j \in 1..(Len(fmt.log) - 1) :
          (fmt.log[j].i > 0 /\ fmt.log[j + 1].i > 0
           /\ fmt.log[j].path = fmt.log[j + 1].path) =>
              \/ fmt.log[j + 1].i = fmt.log[j].i
              \/ /\ fmt.log[j + 1].i = fmt.log[j].i + 1
                 /\ fmt.log[j].pass = "dedent_multilined_string"
    /\ fmt.state = "processed" =>
          fmt.tree = process_statements(None, fmt.parsed, config)

\* all the passes have run over a tree with a block in a block: the inner list was
\* ordered and the tree has changed
C30_Witness ==
    /\ fmt.state = "processed"
    /\ fmt.tree # fmt.parsed
    /\ \E k \in 1..Len(fmt.log) :
          /\ fmt.log[k].pass = "sort_statements"
          /\ Len(fmt.log[k].path) = 2
          /\ ListAt(fmt.parsed, fmt.log[k].path) # <<>>

(***************************************************************************)
(* Properties of canonical_order, checked under SpecSort                   *)
(***************************************************************************)
\* the rank of a node's keyword in the table; a keyword without an entry ranks after
\* all the others
Rank(node) ==
    IF \E k \in 1..Len(LEAF_CANONICAL_ORDER) :
          LEAF_CANONICAL_ORDER[k] = KeywordText(node.keyword)
    THEN CHOOSE k \in 1..Len(LEAF_CANONICAL_ORDER) :
          LEAF_CANONICAL_ORDER[k] = KeywordText(node.keyword)
    ELSE Len(LEAF_CANONICAL_ORDER) + 1

\* the Statement nodes of a list, in list order
RECURSIVE StatementNodes(_)
StatementNodes(nodes) ==
    IF nodes = <<>> THEN <<>>
    ELSE IF nodes[1].node = "Statement"
    THEN <<nodes[1]>> \o StatementNodes(Tail(nodes))
    ELSE StatementNodes(Tail(nodes))

RanksNonDecreasing(stmts) ==
    \A i \in 1..Len(stmts), j \in 1..Len(stmts) : i < j => Rank(stmts[i]) <= Rank(stmts[j])

\* after is the stable ordering of before by rank: the same statements, ranks
\* non-decreasing, statements of one rank in the order they had
StablyOrdered(before, after) ==
    /\ Len(after) = Len(before)
    /\ RanksNonDecreasing(after)
    /\ \E p \in [1..Len(before) -> 1..Len(before)] :
          /\ \A i \in 1..Len(before), j \in 1..Len(before) : i # j => p[i] # p[j]
          /\ \A i \in 1..Len(before) : after[i] = before[p[i]]
          /\ \A i \in 1..Len(before), j \in 1..Len(before) :
                (i < j /\ Rank(after[i]) = Rank(after[j])) => p[i] < p[j]

\* every Comment and EmptyLine node is where it was
OthersKeepIndex(before, after) ==
    /\ Len(after) = Len(before)
    /\ \A k \in 1..Len(before) : before[k].node # "Statement" => after[k] = before[k]

\* C37: after sort_statements_with the Statement nodes of the list are stably ordered
\* by the rank of their keyword, those without a rank after all the ranked ones and
\* in the order they had, and every Comment and EmptyLine node is at the index it had
\* before the sort.
C37_CanonicalSort ==
    fmt.state = "sorted" =>
        /\ StablyOrdered(StatementNodes(fmt.statements), StatementNodes(fmt.sorted))
        /\ OthersKeepIndex(fmt.statements, fmt.sorted)

\* C38: for every list, the empty one included, is_sorted returns without a panic,
\* and it returns true exactly when the ranks of the Statement nodes, in list order,
\* are non-decreasing.
C38_IsSortedDecides ==
    fmt.state = "is_sorted" =>
        /\ ~fmt.panic
        /\ fmt.value = RanksNonDecreasing(StatementNodes(fmt.statements))


(***************************************************************************)
(* Properties of the printer's arithmetic, checked under SpecWidth         *)
(***************************************************************************)
\* the column arithmetic of write_value! for node equals the mathematical value
ValueColumnsExact(cfg, depth, node) ==
    LET kw_text == KeywordText(node.keyword)
        value == Unwrap(node.value)
        pos == cfg.indent_width * depth + Len(kw_text)
    IN /\ line_pos_of(cfg, depth, kw_text) = pos
       /\ (value.kind \in {"Date", "Number", "Other", "String"}
           /\ \A k \in 1..Len(value.text) : value.text[k] # LF)
             => line_end_of(line_pos_of(cfg, depth, kw_text), value.text)
                   = pos + Len(value.text) + 2
       /\ (value.kind = "String" /\ \E k \in 1..Len(value.text) : value.text[k] = LF)
             => extra_indent_of(cfg) = cfg.indent_width + 1

\* for every statement with a value among nodes, written at depth, and below them
RECURSIVE ColumnsExact(_, _, _)
ColumnsExact(nodes, cfg, depth) ==
    \A k \in 1..Len(nodes) :
        nodes[k].node = "Statement" =>
            /\ IsSome(nodes[k].value) => ValueColumnsExact(cfg, depth, nodes[k])
            /\ IsSome(nodes[k].children) =>
                  ColumnsExact(Unwrap(nodes[k].children), cfg, depth + 1)

\* C39: for every indent width of 0..255 and max width of 0..65535 the column
\* arithmetic of the printer (indent_width * depth + keyword length, + value length
\* + 2 in 16 bits, indent_width + 1 in 8 bits) equals the mathematical value for
\* every statement written, and the printer never panics.
C39_NoOverflow ==
    /\ fmt.state # "panic"
    /\ fmt.state \in {"writing", "done"} => ColumnsExact(fmt.tree, config, 0)

====
